---- MODULE Spec2Model ----
(***************************************************************************)
(* Model of execution/data_utils.py: the Mapping Store (.tmp/mapping.json),*)
(* the Field Registry (.tmp/registry.json), the dataset files they join,   *)
(* and the operations init-mapping, link-indices (callable and command),   *)
(* update-mapping (callable and command) and bulk_update_mapping, the path *)
(* navigator and extract_data, and the process command of llm/process.py   *)
(* that writes the registered output files.                                *)
(* A call of the serial runs is one step: load, mutate, save.  In the      *)
(* other runs a command is a step per access to a file: a read, the open   *)
(* that empties the file, the write of the new text.                       *)
(***************************************************************************)
EXTENDS Integers, Sequences, FiniteSets, TLC

(***************************************************************************)
(* Bounds of the model.                                                    *)
(***************************************************************************)
\* largest number of rows a dataset file grows to
MaxRows == 2
\* largest length of the source_indices list handed to link
MaxLinkLen == 2
\* largest number of lead records init-mapping lets the mapping grow to
MaxLeads == 3
\* largest number of update-mapping and bulk_update_mapping calls in a run
MaxUpdates == 1
\* largest number of records in a results batch handed to bulk_update_mapping
MaxResults == 1
\* largest number of records the process command lets a results file grow to
MaxFileLen == 2

(***************************************************************************)
(* JSON / Python values.  Every value has the same record shape so that    *)
(* values of different Python types can be compared.  A bool carries its   *)
(* numeric value in n, because Python's bool is an int: True == 1.         *)
(***************************************************************************)
None == [t |-> "none", n |-> 0, s |-> ""]
IntV(k) == [t |-> "int", n |-> k, s |-> ""]
BoolV(b) == [t |-> "bool", n |-> IF b THEN 1 ELSE 0, s |-> ""]
StrV(x) == [t |-> "str", n |-> 0, s |-> x]

IsNum(v) == v.t \in {"int", "bool"}

\* Python ==  (and membership in a list, set or dict, which use ==)
PyEq(a, b) == IF IsNum(a) /\ IsNum(b) THEN a.n = b.n ELSE a = b

(***************************************************************************)
(* The JSON values of the dataset rows and of what the path navigator      *)
(* returns.  Every value is a record of the same shape; kids holds the     *)
(* members of an object (key k, value v, in order) or the elements of an   *)
(* array (k empty).  Python's None is JNull.                               *)
(***************************************************************************)
JNull == [t |-> "null", n |-> 0, s |-> "", kids |-> <<>>]
JInt(k) == [t |-> "int", n |-> k, s |-> "", kids |-> <<>>]
JStr(x) == [t |-> "str", n |-> 0, s |-> x, kids |-> <<>>]
JObj(members) == [t |-> "obj", n |-> 0, s |-> "", kids |-> members]
JArr(items) ==
    [t |-> "arr", n |-> 0, s |-> "",
     kids |-> [i \in 1..Len(items) |-> [k |-> "", v |-> items[i]]]]
Member(key, value) == [k |-> key, v |-> value]

(***************************************************************************)
(* Names.                                                                  *)
(***************************************************************************)
Datasets == {"postData", "profileData"}
\* "map source name to index field (e.g. postData -> postIndex)"
IndexFieldOf(source) == IF source = "postData" THEN "postIndex" ELSE "profileIndex"
IndexFields == {"postIndex", "profileIndex"}
EnrichFields == {"passedRelevance", "isAgency"}
Fields == IndexFields \cup EnrichFields
OutputFiles == {"postData_passedRelevance.json", "profileData_isAgency.json"}
NoFile == "none"
\* the keys a results record can carry: "index" and the enrichment fields
FieldNames == EnrichFields \cup {"index"}

\* A lead record: lead[k] = None stands for "key k absent" (lead.get(k) is None).
EmptyLead == [k \in Fields |-> None]
NewLead(index_field, i) == [EmptyLead EXCEPT ![index_field] = IntV(i)]

VARIABLES
    leads,      \* mapping.json: the sequence mapping["leads"]
    registry,   \* registry.json: [files, fields]
    datasets,   \* the dataset files: [exists, count] per dataset name
    rows,       \* the rows of each dataset file, a JSON array
    outfiles,   \* the LLM output files: [exists, records] per file name
    nupdates,   \* how many update-mapping / bulk calls have run (bounds the runs)
    out,        \* the output model of the operation that ran last
    inflight,   \* per process: the call it is in the middle of (at a wait, or
                \* between two accesses to a file)
    mapfile,    \* the text of mapping.json when it is not the JSON of leads
    filetext    \* the same for registry.json, the dataset and the output files

vars ==
    <<leads, registry, datasets, rows, outfiles, nupdates, out, inflight, mapfile,
      filetext>>

(***************************************************************************)
(* The state keeps, of the output model an operation returns or prints,    *)
(* its status; the other fields of an output are the fields of the result  *)
(* records computed below (InitResult, LinkResult, UpdateResult,           *)
(* BulkResult).  Status "raised" is an exception that leaves the operation *)
(* instead of an output.                                                   *)
(***************************************************************************)
NoOutput == [status |-> "none"]

\* The processes of the external driver.  A process in the middle of a call
\* holds the call (op), the copy of the mapping it loaded (mapping), the
\* entries extract_data gave it or the rows it read (items), the number of
\* calls of call_llm it still makes (calls), what they returned so far
\* (all_results), the list it is about to write to a results or dataset file
\* (records) and the registry it read or is about to save (newreg); saved is
\* the mapping it wrote last.
Procs == {1, 2}
NoOp ==
    [kind |-> "none", index_field |-> "", source_indices |-> <<>>,
     target_index_field |-> "", indices |-> {}, field |-> "", value |-> None,
     source |-> "", results_file |-> "", count |-> 0, save_name |-> "",
     queries |-> <<>>, batch_size |-> 0, limit |-> None, index_value |-> 0,
     path |-> <<>>, where |-> <<>>]
\* load_mapping / load_registry when the file does not exist yet
EmptyMapping == <<>>
EmptyRegistry ==
    [files |-> [f \in OutputFiles |-> [registered |-> FALSE, fields |-> {},
                                       index_field |-> NoFile]],
     fields |-> [k \in FieldNames |-> NoFile]]
Idle ==
    [pc |-> "idle", op |-> NoOp, mapping |-> <<>>, saved |-> <<>>, items |-> <<>>,
     calls |-> 0, all_results |-> <<>>, records |-> <<>>, newreg |-> EmptyRegistry]
\* The text of a file: the JSON of what the state holds for the file (or no
\* file yet), the empty text open(path, 'w') leaves, or a text of len
\* characters that is no JSON.
Readable == [kind |-> "json", len |-> 0]
Emptied == [kind |-> "empty", len |-> 0]
Unreadable(file) == file.kind # "json"
RegistryFile == "registry.json"
TextFiles == Datasets \cup OutputFiles \cup {RegistryFile}
Output(status) == [status |-> status]

\* process p has returned to its caller
Ended(p) == [inflight EXCEPT ![p] = [Idle EXCEPT !.saved = inflight[p].saved]]

Init ==
    /\ leads = EmptyMapping
    /\ registry = EmptyRegistry
    /\ datasets = [d \in Datasets |-> [exists |-> FALSE, count |-> 0]]
    /\ rows = [d \in Datasets |-> <<>>]
    /\ outfiles = [o \in OutputFiles |-> [exists |-> FALSE, records |-> <<>>]]
    /\ nupdates = 0
    /\ out = NoOutput
    /\ inflight = [p \in Procs |-> Idle]
    /\ mapfile = Readable
    /\ filetext = [f \in TextFiles |-> Readable]

(***************************************************************************)
(* A scraping stage appends the results of its actor to a dataset file     *)
(* (creating it): it reads the file, existing_data being [] when there is  *)
(* no file or json.load raises on it, opens it with 'w' and writes         *)
(* existing_data + results.                                                *)
(***************************************************************************)
\* existing_data of a dataset file
ExistingData(d) == IF Unreadable(filetext[d]) THEN <<>> ELSE rows[d]

\* the whole command, in a run where the commands follow one another
AppendRows(d, results) ==
    /\ Len(ExistingData(d) \o results) <= MaxRows
    /\ datasets' = [datasets EXCEPT ![d] =
                       [exists |-> TRUE, count |-> Len(ExistingData(d) \o results)]]
    /\ rows' = [rows EXCEPT ![d] = ExistingData(d) \o results]
    /\ filetext' = [filetext EXCEPT ![d] = Readable]
    /\ out' = Output("success")
    /\ UNCHANGED <<inflight, mapfile, leads, registry, outfiles, nupdates>>

(***************************************************************************)
(* init-mapping                                                            *)
(***************************************************************************)
\* (variant: existing_indices left empty)
ExistingIndices_none(ls, index_field) == {}

\* existing_indices: the non-None values leads carry under index_field
ExistingIndices(ls, index_field) ==
    {ls[p][index_field] : p \in {q \in 1..Len(ls) : ls[q][index_field] # None}}

\* (variant: the membership test compares with the next position)
InExisting_next(i, existing) == \E v \in existing : PyEq(v, IntV(i + 1))

\* i in existing_indices
InExisting(i, existing) == \E v \in existing : PyEq(v, IntV(i))

RECURSIVE InitLoop(_, _, _, _, _, _, _)
InitLoop(ls, existing, index_field, i, dataset_count, created, skipped) ==
    IF i >= dataset_count
    THEN [leads |-> ls, created |-> created, skipped |-> skipped]
    ELSE IF InExisting(i, existing)
         THEN InitLoop(ls, existing, index_field, i + 1, dataset_count,
                       created, skipped + 1)
         ELSE InitLoop(Append(ls, NewLead(index_field, i)), existing, index_field,
                       i + 1, dataset_count, created + 1, skipped)

\* (variant: a full rebuild of the mapping from the dataset)
InitResult_rebuild(ls, dataset_count, index_field) ==
    [status |-> "success",
     leads |-> [i \in 1..dataset_count |-> NewLead(index_field, i - 1)],
     created |-> dataset_count, skipped |-> 0, total_leads |-> dataset_count]

\* What init-mapping does to a mapping ls for a dataset of dataset_count rows:
\* the mapping it saves and the InitMappingOutput it prints.
InitResult(ls, dataset_count, index_field) ==
    LET r == InitLoop(ls, ExistingIndices(ls, index_field), index_field, 0,
                      dataset_count, 0, 0) IN
    [status |-> "success", leads |-> r.leads, created |-> r.created,
     skipped |-> r.skipped, total_leads |-> Len(r.leads)]

\* Dataset files hold arrays in every state of the model, so "Dataset must be
\* an array" is never reported; "Dataset not found" is.
init_mapping(source, index_field) ==
    IF ~datasets[source].exists
    THEN /\ out' = Output("error")
         /\ UNCHANGED <<filetext, inflight, mapfile, leads, registry, datasets, rows, outfiles, nupdates>>
    ELSE \E r \in {InitResult(leads, datasets[source].count, index_field)} :
         /\ Len(r.leads) <= MaxLeads
         /\ leads' = r.leads
         /\ out' = Output(r.status)
         /\ UNCHANGED <<filetext, inflight, mapfile, registry, datasets, rows, outfiles, nupdates>>

(***************************************************************************)
(* link-indices: link_indices_func (callable) and link_indices (command)   *)
(***************************************************************************)
\* "Find highest existing target index": the loop over the leads.  Comparing
\* a str with an int raises TypeError, outside any try block.
RECURSIVE MaxTargetLoop(_, _, _, _)
MaxTargetLoop(ls, target_index_field, p, max_target) ==
    IF p > Len(ls)
    THEN [raised |-> FALSE, max_target |-> max_target]
    ELSE LET current == ls[p][target_index_field] IN
         IF current = None
         THEN MaxTargetLoop(ls, target_index_field, p + 1, max_target)
         ELSE IF ~IsNum(current)
              THEN [raised |-> TRUE, max_target |-> max_target]
              ELSE IF current.n > max_target
                   THEN MaxTargetLoop(ls, target_index_field, p + 1, current.n)
                   ELSE MaxTargetLoop(ls, target_index_field, p + 1, max_target)

\* (variant: the scan starts from 0 instead of -1)
MaxTarget_from0(ls, target_index_field) == MaxTargetLoop(ls, target_index_field, 1, 0)

MaxTarget(ls, target_index_field) == MaxTargetLoop(ls, target_index_field, 1, -1)

\* (variants of the allocator's first value: the maximum itself; one past the next)
NextTargetIdx_reuse(max_target) == max_target
NextTargetIdx_gap(max_target) == max_target + 2

\* the allocator's first value
NextTargetIdx(max_target) == max_target + 1

\* the positions of the leads l with l.get(source_index_field) == source_idx
Matching(ls, source_index_field, source_idx) ==
    {p \in 1..Len(ls) : PyEq(ls[p][source_index_field], IntV(source_idx))}

\* the first of them (the inner for loop with its break)
FirstLead(ls, source_index_field, source_idx) ==
    CHOOSE p \in Matching(ls, source_index_field, source_idx) :
        \A q \in Matching(ls, source_index_field, source_idx) : p <= q

\* (variant: the truthiness test "if lead.get(target_index_field):")
AlreadyLinked_truthy(lead, target_index_field) ==
    /\ lead[target_index_field] # None
    /\ ~(IsNum(lead[target_index_field]) /\ lead[target_index_field].n = 0)

\* lead.get(target_index_field) is not None
AlreadyLinked(lead, target_index_field) == lead[target_index_field] # None

\* The loop over source_indices.  raise_on_missing is the one difference
\* between the command (TRUE) and the callable (FALSE).
RECURSIVE LinkLoop(_, _, _, _, _, _, _, _, _)
LinkLoop(ls, source_index_field, target_index_field, source_indices, k, next_target_idx, linked, skipped, raise_on_missing) ==
    IF k > Len(source_indices)
    THEN [status |-> "success", leads |-> ls, linked |-> linked, skipped |-> skipped]
    ELSE LET source_idx == source_indices[k] IN
         IF Matching(ls, source_index_field, source_idx) = {}
         THEN IF raise_on_missing
              THEN [status |-> "error", leads |-> ls, linked |-> linked,
                    skipped |-> skipped]
              ELSE LinkLoop(ls, source_index_field, target_index_field,
                            source_indices, k + 1, next_target_idx, linked, skipped,
                            raise_on_missing)
         ELSE LET p == FirstLead(ls, source_index_field, source_idx) IN
              IF AlreadyLinked(ls[p], target_index_field)
              THEN LinkLoop(ls, source_index_field, target_index_field,
                            source_indices, k + 1, next_target_idx, linked,
                            Append(skipped, source_idx), raise_on_missing)
              ELSE LinkLoop([ls EXCEPT ![p][target_index_field] = IntV(next_target_idx)],
                            source_index_field, target_index_field,
                            source_indices, k + 1, next_target_idx + 1,
                            Append(linked, source_idx), skipped, raise_on_missing)

\* target_start=max_target + 1 if linked else None; absent from an error output
TargetStart(status, max_target, linked) ==
    IF status = "success" /\ linked # <<>> THEN IntV(max_target + 1) ELSE None

\* The output of a call whose loop ended as r after the maximum m was found.
LinkOutput(m, r) ==
    [status |-> r.status, leads |-> r.leads, linked |-> r.linked,
     skipped |-> r.skipped,
     target_start |-> TargetStart(r.status, m.max_target, r.linked)]

\* (variant: a call that ends with an error output leaves the mapping file
\* as it found it)
LinkFrom_unsaved(m, ls, source_index_field, source_indices, target_index_field, raise_on_missing) ==
    IF m.raised
    THEN [status |-> "raised", leads |-> ls, linked |-> <<>>, skipped |-> <<>>,
          target_start |-> None]
    ELSE LET r == LinkOutput(m, LinkLoop(ls, source_index_field, target_index_field,
                                         source_indices, 1, NextTargetIdx(m.max_target),
                                         <<>>, <<>>, raise_on_missing))
         IN IF r.status = "error" THEN [r EXCEPT !.leads = ls] ELSE r

LinkFrom(m, ls, source_index_field, source_indices, target_index_field, raise_on_missing) ==
    IF m.raised
    THEN [status |-> "raised", leads |-> ls, linked |-> <<>>, skipped |-> <<>>,
          target_start |-> None]
    ELSE LinkOutput(m, LinkLoop(ls, source_index_field, target_index_field,
                                source_indices, 1, NextTargetIdx(m.max_target),
                                <<>>, <<>>, raise_on_missing))

\* (variant: the callable aborts at a source index without a lead, as the
\* command does)
LinkResult_abort(ls, source_index_field, source_indices, target_index_field, raise_on_missing) ==
    LinkFrom(MaxTarget(ls, target_index_field), ls, source_index_field,
             source_indices, target_index_field, TRUE)

\* What a link call does to a mapping ls: status "raised" is an exception that
\* leaves the call (the mapping is not saved), "error" an error output.
LinkResult(ls, source_index_field, source_indices, target_index_field, raise_on_missing) ==
    LinkFrom(MaxTarget(ls, target_index_field), ls, source_index_field,
             source_indices, target_index_field, raise_on_missing)

link_indices_func(source_index_field, source_indices, target_index_field) ==
    \E r \in {LinkResult(leads, source_index_field, source_indices,
                           target_index_field, FALSE)} :
        /\ leads' = r.leads
        /\ out' = Output(r.status)
        /\ UNCHANGED <<filetext, inflight, mapfile, registry, datasets, rows, outfiles, nupdates>>

link_indices(source_index_field, source_indices, target_index_field) ==
    \E r \in {LinkResult(leads, source_index_field, source_indices,
                           target_index_field, TRUE)} :
        /\ leads' = r.leads
        /\ out' = Output(r.status)
        /\ UNCHANGED <<filetext, inflight, mapfile, registry, datasets, rows, outfiles, nupdates>>

(***************************************************************************)
(* update-mapping: update_mapping_field (callable), update_mapping (command)*)
(***************************************************************************)
\* lead.get(index_field) in indices
InIndices(v, indices) == \E i \in indices : PyEq(v, IntV(i))

\* (variant: the leads are matched by their position in the mapping)
UpdateLeads_bypos(ls, index_field, indices, field, value) ==
    [p \in 1..Len(ls) |->
        IF (p - 1) \in indices /\ ls[p][index_field] # None
        THEN [ls[p] EXCEPT ![field] = value]
        ELSE ls[p]]

UpdateLeads(ls, index_field, indices, field, value) ==
    [p \in 1..Len(ls) |->
        IF InIndices(ls[p][index_field], indices)
        THEN [ls[p] EXCEPT ![field] = value]
        ELSE ls[p]]

\* updated: one per lead the loop matched
UpdatedCount(ls, index_field, indices) ==
    Cardinality({p \in 1..Len(ls) : InIndices(ls[p][index_field], indices)})

\* What update_mapping_field does to a mapping ls, and its UpdateMappingOutput.
UpdateResult(ls, index_field, indices, field, value) ==
    [status |-> "success",
     leads |-> UpdateLeads(ls, index_field, indices, field, value),
     updated |-> UpdatedCount(ls, index_field, indices)]

update_mapping_field(index_field, indices, field, value) ==
    /\ nupdates < MaxUpdates
    /\ \E r \in {UpdateResult(leads, index_field, indices, field, value)} :
        /\ leads' = r.leads
        /\ out' = Output(r.status)
    /\ nupdates' = nupdates + 1
    /\ UNCHANGED <<filetext, inflight, mapfile, registry, datasets, rows, outfiles>>

(***************************************************************************)
(* Two calls running at once.  A mutating call is load_mapping, changes in  *)
(* memory, save_mapping, with no lock on the file, and save_json opens the  *)
(* file with 'w' (the file is empty from then on) before json.dump writes   *)
(* the text at the start of the file: the model takes the load, the open    *)
(* and the write of a call as three steps, and lets the steps of two        *)
(* processes interleave.                                                    *)
(***************************************************************************)
LinkOp(source_index_field, source_indices, target_index_field) ==
    [NoOp EXCEPT !.kind = "link", !.index_field = source_index_field,
                 !.source_indices = source_indices,
                 !.target_index_field = target_index_field]
UpdateOp(index_field, indices, field, value) ==
    [NoOp EXCEPT !.kind = "update", !.index_field = index_field,
                 !.indices = indices, !.field = field, !.value = value]
\* init-mapping, with the dataset_count of the dataset it read
InitOp(source, index_field, dataset_count) ==
    [NoOp EXCEPT !.kind = "init", !.source = source, !.index_field = index_field,
                 !.count = dataset_count]

\* what the call op computes from the mapping it loaded (scrape_profiles
\* ends in a call of link_indices_func)
OpResult(mapping, op) ==
    IF op.kind \in {"link", "scrape"}
    THEN LinkResult(mapping, op.index_field, op.source_indices,
                    op.target_index_field, FALSE)
    ELSE IF op.kind = "init"
    THEN InitResult(mapping, op.count, op.index_field)
    ELSE UpdateResult(mapping, op.index_field, op.indices, op.field, op.value)

\* The length of the text json.dump(mapping, f, indent=2) writes.
RECURSIVE DecLen(_)
DecLen(n) ==
    IF n < 0 THEN 1 + DecLen(0 - n) ELSE IF n < 10 THEN 1 ELSE 1 + DecLen(n \div 10)
KeyLen(k) ==
    CASE k = "postIndex" -> 9 [] k = "profileIndex" -> 12
      [] k = "passedRelevance" -> 15 [] k = "isAgency" -> 8 [] k = "index" -> 5
\* the strings the model stores in a lead have one character
ValueLen(v) ==
    CASE v.t = "int" -> DecLen(v.n)
      [] v.t = "bool" -> IF v.n = 1 THEN 4 ELSE 5
      [] v.t = "str" -> IF v.s = "" THEN 2 ELSE 3
\* one member: six spaces, the key in quotes, colon and space, the value
MemberLen(lead, k) == 6 + (KeyLen(k) + 2) + 2 + ValueLen(lead[k])
RECURSIVE MembersLen(_, _)
MembersLen(lead, keys) ==
    IF keys = {} THEN 0
    ELSE LET k == CHOOSE x \in keys : TRUE
         IN MemberLen(lead, k) + MembersLen(lead, keys \ {k})
\* one lead: "{}", or the members on their lines between "{" and "}"
LeadLen(lead) ==
    LET keys == {k \in Fields : lead[k] # None}
    IN IF keys = {} THEN 4 + 2
       ELSE (4 + 2) + MembersLen(lead, keys) + 2 * (Cardinality(keys) - 1) + (1 + 4 + 1)
RECURSIVE LeadsLen(_, _)
LeadsLen(ls, i) == IF i > Len(ls) THEN 0 ELSE LeadLen(ls[i]) + LeadsLen(ls, i + 1)
TextLen(ls) ==
    IF ls = <<>> THEN 17
    ELSE 15 + LeadsLen(ls, 1) + 2 * (Len(ls) - 1) + 6

\* the length of the text of mapping.json
FileLen(file, ls) == IF file.kind = "json" THEN TextLen(ls) ELSE file.len

\* load_mapping(): load_json tries utf-8, utf-16 and latin-1.  An empty file
\* and a text of odd length that is no JSON fail all three (ValueError); a
\* text of even length that is no JSON fails the utf-16 attempt with a
\* UnicodeError, which load_json does not catch.
LoadMapping(file, ls) ==
    IF file.kind = "json" THEN [exc |-> "", leads |-> ls]
    ELSE IF file.kind = "empty" \/ file.len % 2 = 1
    THEN [exc |-> "ValueError", leads |-> <<>>]
    ELSE [exc |-> "UnicodeError", leads |-> <<>>]

\* how a call ends when its load_mapping() raises: link_indices_func loads
\* outside any try, the others report the exception
LoadFailure(op) == IF op.kind = "link" THEN "raised" ELSE "error"

\* the mapping save_mapping(mapping) writes: the copy the call loaded, with
\* the call's changes
SavedVersion(current, mapping, op) ==
    IF OpResult(mapping, op).status = "raised" THEN current
    ELSE OpResult(mapping, op).leads

\* The file after the text of version is written at its start: the text
\* replaces the file when it is at least as long as what the file holds, else
\* the end of the old text stays behind it and the file is no JSON.
WriteOver(file, ls, version) ==
    IF TextLen(version) >= FileLen(file, ls)
    THEN [file |-> Readable, leads |-> version]
    ELSE [file |-> [kind |-> "garbled", len |-> FileLen(file, ls)], leads |-> ls]

\* process p starts init-mapping: the dataset is missing ("Dataset not
\* found"), or load_json(dataset_path) raises and the exception is reported,
\* or the command holds dataset_count.  Dataset files hold arrays in every
\* state of the model, so "Dataset must be an array" is never reported.
init_read(p, source, index_field) ==
    /\ inflight[p].pc = "idle"
    /\ IF ~datasets[source].exists \/ Unreadable(filetext[source])
       THEN /\ out' = Output("error")
            /\ UNCHANGED inflight
       ELSE /\ inflight' = [inflight EXCEPT ![p] =
                              [Idle EXCEPT !.pc = "counted",
                                           !.op = InitOp(source, index_field,
                                                         datasets[source].count),
                                           !.saved = inflight[p].saved]]
            /\ UNCHANGED out
    /\ UNCHANGED <<filetext, mapfile, leads, registry, datasets, rows, outfiles, nupdates>>

\* mapping = load_mapping() of the call op of process p: a link or update
\* call starts with it, init-mapping has read its dataset before
load_mapping(p, op) ==
    /\ op.kind \in {"init", "link", "update"}
    /\ IF op.kind = "init"
       THEN inflight[p].pc = "counted" /\ op = inflight[p].op
       ELSE inflight[p].pc = "idle"
    /\ op.kind = "update" => nupdates < MaxUpdates
    /\ nupdates' = IF op.kind = "update" THEN nupdates + 1 ELSE nupdates
    /\ IF LoadMapping(mapfile, leads).exc # ""
       THEN /\ out' = Output(LoadFailure(op))
            /\ inflight' = Ended(p)
       ELSE /\ inflight' = [inflight EXCEPT ![p] =
                              [Idle EXCEPT !.pc = "loaded", !.op = op,
                                           !.mapping = leads, !.saved = inflight[p].saved]]
            /\ UNCHANGED out
    /\ UNCHANGED <<filetext, mapfile, leads, registry, datasets, rows, outfiles>>

\* save_mapping(mapping), first half: open(filepath, 'w') empties the file.
\* A call whose loop raised outside a try never gets here: the exception
\* leaves link_indices_func, and scrape_profiles reports it as status error.
save_mapping_open(p) ==
    /\ inflight[p].pc = "loaded"
    /\ IF OpResult(inflight[p].mapping, inflight[p].op).status = "raised"
       THEN /\ inflight' = Ended(p)
            /\ out' = Output(IF inflight[p].op.kind = "scrape" THEN "error"
                             ELSE "raised")
            /\ UNCHANGED mapfile
       ELSE /\ inflight' = [inflight EXCEPT ![p] = [@ EXCEPT !.pc = "opened"]]
            /\ mapfile' = Emptied
            /\ UNCHANGED out
    /\ UNCHANGED <<filetext, leads, registry, datasets, rows, outfiles, nupdates>>

\* save_mapping(mapping), second half: json.dump writes the text and the file
\* is closed; the call returns its output
save_mapping_write(p) ==
    /\ inflight[p].pc = "opened"
    /\ \E w \in {WriteOver(mapfile, leads,
                          SavedVersion(leads, inflight[p].mapping, inflight[p].op))} :
          /\ leads' = w.leads
          /\ mapfile' = w.file
    /\ inflight' = [inflight EXCEPT ![p] =
                       [Idle EXCEPT !.saved = SavedVersion(leads, inflight[p].mapping,
                                                           inflight[p].op)]]
    /\ out' = Output(OpResult(inflight[p].mapping, inflight[p].op).status)
    /\ UNCHANGED <<filetext, registry, datasets, rows, outfiles, nupdates>>

\* the command's coercion of --value: true/false, all digits, else the string
DigitValue(raw) == CASE raw = "0" -> 0 [] raw = "1" -> 1 [] raw = "2" -> 2
IsDigit(raw) == raw \in {"0", "1", "2"}
ParseValue(raw) ==
    IF raw \in {"true", "True", "TRUE"} THEN BoolV(TRUE)
    ELSE IF raw \in {"false", "False", "FALSE"} THEN BoolV(FALSE)
    ELSE IF IsDigit(raw) THEN IntV(DigitValue(raw))
    ELSE StrV(raw)

\* The command: the same loop on the parsed --indices and the coerced
\* --value.  No text of --indices parses to the empty list: ''.split(',') is
\* [''] and int('') raises inside the try, so the command prints status error
\* and saves nothing.
update_mapping(index_field, indices, field, raw) ==
    /\ nupdates < MaxUpdates
    /\ IF indices = {}
       THEN /\ out' = Output("error")
            /\ UNCHANGED leads
       ELSE \E r \in {UpdateResult(leads, index_field, indices, field,
                                   ParseValue(raw))} :
               /\ leads' = r.leads
               /\ out' = Output(r.status)
    /\ nupdates' = nupdates + 1
    /\ UNCHANGED <<filetext, inflight, mapfile, registry, datasets, rows, outfiles>>

(***************************************************************************)
(* The Field Registry and bulk_update_mapping                              *)
(***************************************************************************)
\* (variant: a field already in the reverse map keeps its file)
register_llm_output_keep(reg, output_file, fields, index_field) ==
    [files |-> [reg.files EXCEPT ![output_file] =
                    [registered |-> TRUE, fields |-> fields,
                     index_field |-> index_field]],
     fields |-> [k \in FieldNames |->
                    IF k \in fields /\ k # "index" /\ reg.fields[k] = NoFile
                    THEN output_file
                    ELSE reg.fields[k]]]

register_llm_output(reg, output_file, fields, index_field) ==
    [files |-> [reg.files EXCEPT ![output_file] =
                    [registered |-> TRUE, fields |-> fields,
                     index_field |-> index_field]],
     fields |-> [k \in FieldNames |->
                    IF k \in fields /\ k # "index" THEN output_file
                    ELSE reg.fields[k]]]

\* a call of register_llm_output on the registry file
register(output_file, fields, index_field) ==
    /\ registry' = register_llm_output(registry, output_file, fields, index_field)
    /\ out' = Output("success")
    /\ UNCHANGED <<filetext, inflight, mapfile, leads, datasets, rows, outfiles, nupdates>>

\* (variant: the scan keeps the last record with the index)
ScanFor_last(data, field, index_value) ==
    LET hits == {i \in 1..Len(data) : PyEq(data[i]["index"], IntV(index_value))}
    IN IF hits = {} THEN None
       ELSE data[CHOOSE i \in hits : \A m \in hits : m <= i][field]

\* "for item in data: if item.get('index') == index_value: return
\* item.get(field)", None after the loop
ScanFor(data, field, index_value) ==
    LET hits == {i \in 1..Len(data) : PyEq(data[i]["index"], IntV(index_value))}
    IN IF hits = {} THEN None
       ELSE data[CHOOSE i \in hits : \A m \in hits : i <= m][field]

\* What get_field_from_registry returns on registry reg and output files
\* files.  A field outside the names of the model has no registration.
get_field_from_registry(reg, files, field, index_value) ==
    IF field \notin FieldNames \/ reg.fields[field] = NoFile THEN None
    ELSE IF ~files[reg.fields[field]].exists THEN None
    ELSE ScanFor(files[reg.fields[field]].records, field, index_value)

\* load_registry() or the load_json of the resolved output file raises, and
\* nothing in get_field_from_registry catches it
LookupRaises(field) ==
    \/ Unreadable(filetext[RegistryFile])
    \/ /\ field \in FieldNames
       /\ registry.fields[field] # NoFile
       /\ outfiles[registry.fields[field]].exists
       /\ Unreadable(filetext[registry.fields[field]])

\* A call of get_field_from_registry by process p reads registry.json and
\* then the output file the field resolves to, and other calls run between
\* the two reads.  The state keeps what the call returned.
LookupOp(field, index_value, output_file) ==
    [NoOp EXCEPT !.kind = "lookup", !.field = field, !.index_value = index_value,
                 !.results_file = output_file]
LookupReturn(value) == [status |-> "returned", value |-> value]

\* registry = load_registry() and output_file: load_json raising leaves the
\* call, and a field with no registration returns None
lookup_registry(p, field, index_value) ==
    /\ inflight[p].pc = "idle"
    /\ LET output_file == IF field \in FieldNames THEN registry.fields[field]
                          ELSE NoFile
       IN IF Unreadable(filetext[RegistryFile])
          THEN /\ out' = Output("raised")
               /\ UNCHANGED inflight
          ELSE IF output_file = NoFile
          THEN /\ out' = LookupReturn(None)
               /\ UNCHANGED inflight
          ELSE /\ inflight' = [inflight EXCEPT ![p] =
                                 [Idle EXCEPT !.pc = "resolved",
                                              !.op = LookupOp(field, index_value,
                                                              output_file),
                                              !.saved = inflight[p].saved]]
               /\ UNCHANGED out
    /\ UNCHANGED <<filetext, mapfile, leads, registry, datasets, rows, outfiles, nupdates>>

\* the output file: None when it does not exist, load_json raising leaves
\* the call, and otherwise the scan of its records.  Files are never
\* removed, so os.path.exists and the load_json after it are one step.
lookup_file(p) ==
    /\ inflight[p].pc = "resolved"
    /\ inflight[p].op.kind = "lookup"
    /\ LET output_file == inflight[p].op.results_file
       IN out' = IF ~outfiles[output_file].exists THEN LookupReturn(None)
                 ELSE IF Unreadable(filetext[output_file]) THEN Output("raised")
                 ELSE LookupReturn(ScanFor(outfiles[output_file].records,
                                           inflight[p].op.field,
                                           inflight[p].op.index_value))
    /\ inflight' = Ended(p)
    /\ UNCHANGED <<filetext, mapfile, leads, registry, datasets, rows, outfiles, nupdates>>

\* the keys of one results record
Keys(result) == {k \in FieldNames : result[k] # None}

\* (variant: 'index' is not excluded)
ResultFields_withindex(results) ==
    {k \in FieldNames : \E i \in 1..Len(results) : k \in Keys(results[i])}

\* "Extract field names from results (excluding 'index')"
ResultFields(results) ==
    {k \in FieldNames : k # "index" /\ \E i \in 1..Len(results) : k \in Keys(results[i])}

\* (variant: the lead is looked up by its position in the mapping)
LeadLookup_bypos(ls, index_field, idx) ==
    IF idx.t = "int" /\ idx.n + 1 <= Len(ls) THEN idx.n + 1 ELSE 0

\* lead_lookup[idx]: a dict comprehension keeps the last lead of each key
LeadLookup(ls, index_field, idx) ==
    LET hits == {p \in 1..Len(ls) : PyEq(ls[p][index_field], idx)} IN
    IF hits = {} THEN 0 ELSE CHOOSE p \in hits : \A q \in hits : q <= p

\* copy all fields except 'index' to the lead
CopyFields(lead, result) ==
    [k \in Fields |-> IF k \in Keys(result) /\ k # "index" THEN result[k] ELSE lead[k]]

\* The legacy loop over results; ls0 is the mapping the lookup was built from.
RECURSIVE BulkLoop(_, _, _, _, _, _)
BulkLoop(ls, ls0, index_field, results, i, updated) ==
    IF i > Len(results)
    THEN [leads |-> ls, updated |-> updated]
    ELSE LET idx == results[i]["index"]
             p == LeadLookup(ls0, index_field, idx) IN
         IF idx # None /\ p # 0
         THEN BulkLoop([ls EXCEPT ![p] = CopyFields(ls[p], results[i])], ls0,
                       index_field, results, i + 1, updated + 1)
         ELSE BulkLoop(ls, ls0, index_field, results, i + 1, updated)

\* What bulk_update_mapping does to the mapping and the registry, and its
\* UpdateMappingOutput: with an output_file it registers the file and copies
\* nothing; without one (NoFile) it copies the fields onto the leads.
BulkResult(ls, reg, index_field, results, output_file) ==
    IF output_file # NoFile
    THEN [status |-> "success", leads |-> ls,
          registry |-> register_llm_output(reg, output_file,
                                           ResultFields(results), index_field),
          updated |-> Len(results)]
    ELSE LET r == BulkLoop(ls, ls, index_field, results, 1, 0) IN
         [status |-> "success", leads |-> r.leads, registry |-> reg,
          updated |-> r.updated]

bulk_update_mapping(index_field, results, output_file) ==
    /\ nupdates < MaxUpdates
    /\ \E r \in {BulkResult(leads, registry, index_field, results, output_file)} :
        /\ leads' = r.leads
        /\ registry' = r.registry
        /\ out' = Output(r.status)
    /\ nupdates' = nupdates + 1
    /\ UNCHANGED <<filetext, inflight, mapfile, datasets, rows, outfiles>>

(***************************************************************************)
(* The path navigator.  A path is the sequence of its characters.  A       *)
(* function that can raise returns a record whose exc names the exception  *)
(* class ("" when it returned).                                            *)
(***************************************************************************)
Digits == {"0", "1", "2", "3", "4", "5", "6", "7", "8", "9"}
DigitOf(c) ==
    CASE c = "0" -> 0 [] c = "1" -> 1 [] c = "2" -> 2 [] c = "3" -> 3
      [] c = "4" -> 4 [] c = "5" -> 5 [] c = "6" -> 6 [] c = "7" -> 7
      [] c = "8" -> 8 [] c = "9" -> 9

\* int(bracket_content): an optional sign, then one digit or more
Unsigned(cs) == IF cs # <<>> /\ cs[1] \in {"-", "+"} THEN Tail(cs) ELSE cs
IsInt(cs) == Unsigned(cs) # <<>> /\ \A i \in 1..Len(Unsigned(cs)) : Unsigned(cs)[i] \in Digits
RECURSIVE Decimal(_, _)
Decimal(cs, acc) ==
    IF cs = <<>> THEN acc ELSE Decimal(Tail(cs), 10 * acc + DigitOf(cs[1]))
IntOf(cs) == IF cs[1] = "-" THEN 0 - Decimal(Unsigned(cs), 0) ELSE Decimal(Unsigned(cs), 0)

\* the segments parse_path builds
KeySeg(name) == [type |-> "key", name |-> name, n |-> 0]
AllSeg == [type |-> "all", name |-> "", n |-> 0]
IndexSeg(n) == [type |-> "index", name |-> "", n |-> n]

\* path.index(']', i): the first ']' at or after position i, 0 when there is none
IndexOfClose(path, i) ==
    IF \E j \in i..Len(path) : path[j] = "]"
    THEN CHOOSE j \in i..Len(path) :
            path[j] = "]" /\ \A m \in i..(j - 1) : path[m] # "]"
    ELSE 0

\* segments.append(('key', current)) when current is not empty
Flush(segments, current) ==
    IF current # "" THEN Append(segments, KeySeg(current)) ELSE segments

\* the while loop of parse_path; i is the 1-based position in path
RECURSIVE ParseLoop(_, _, _, _)
ParseLoop(path, i, current, segments) ==
    IF i > Len(path)
    THEN [exc |-> "", segments |-> Flush(segments, current)]
    ELSE IF path[i] = "["
    THEN LET j == IndexOfClose(path, i) IN
         IF j = 0 THEN [exc |-> "ValueError", segments |-> <<>>]
         ELSE IF SubSeq(path, i + 1, j - 1) = <<"*">>
         THEN ParseLoop(path, j + 1, "", Append(Flush(segments, current), AllSeg))
         ELSE IF ~IsInt(SubSeq(path, i + 1, j - 1))
         THEN [exc |-> "ValueError", segments |-> <<>>]
         ELSE ParseLoop(path, j + 1, "",
                        Append(Flush(segments, current),
                               IndexSeg(IntOf(SubSeq(path, i + 1, j - 1)))))
    ELSE IF path[i] = "."
    THEN ParseLoop(path, i + 1, "", Flush(segments, current))
    ELSE ParseLoop(path, i + 1, current \o path[i], segments)

parse_path(path) == ParseLoop(path, 1, "", <<>>)

NavOk(v) == [exc |-> "", val |-> v]
NavRaise(e) == [exc |-> e, val |-> JNull]

\* data.get(key) on an object
ObjGet(data, key) ==
    IF \E i \in 1..Len(data.kids) : data.kids[i].k = key
    THEN data.kids[CHOOSE i \in 1..Len(data.kids) : data.kids[i].k = key].v
    ELSE JNull

\* variant: an index below -len clamps to the first element
ListAt_clamped(data, n) ==
    IF 0 <= n /\ n < Len(data.kids) THEN NavOk(data.kids[n + 1].v)
    ELSE IF n < 0 /\ Len(data.kids) > 0
    THEN NavOk(data.kids[IF 0 - n <= Len(data.kids) THEN Len(data.kids) + n + 1 ELSE 1].v)
    ELSE NavRaise("IndexError")

\* data[n] on a list, with Python's negative indices
ListAt(data, n) ==
    IF 0 <= n /\ n < Len(data.kids) THEN NavOk(data.kids[n + 1].v)
    ELSE IF n < 0 /\ 0 - n <= Len(data.kids)
    THEN NavOk(data.kids[Len(data.kids) + n + 1].v)
    ELSE NavRaise("IndexError")

\* the exceptions the loop of an 'all' segment absorbs
Absorbed == {"KeyError", "IndexError", "TypeError"}

RECURSIVE navigate_path(_, _)
\* the 'all' branch: one (i, value) pair per element, (i, None) for an
\* element whose navigation raised an absorbed exception; any other
\* exception leaves the loop at the first element that raises it
NavigateAll(data, remaining) ==
    LET r == [i \in 1..Len(data.kids) |-> navigate_path(data.kids[i].v, remaining)]
        escaping == {i \in 1..Len(data.kids) : r[i].exc \notin Absorbed \cup {""}}
    IN IF escaping # {}
       THEN NavRaise(r[CHOOSE i \in escaping : \A m \in escaping : i <= m].exc)
       ELSE NavOk(JArr([i \in 1..Len(data.kids) |->
                JArr(<<JInt(i - 1), IF r[i].exc = "" THEN r[i].val ELSE JNull>>)]))

navigate_path(data, segments) ==
    IF segments = <<>> THEN NavOk(data)
    ELSE IF Head(segments).type = "all"
    THEN IF data.t # "arr" THEN NavRaise("ValueError")
         ELSE NavigateAll(data, Tail(segments))
    ELSE IF Head(segments).type = "index"
    THEN IF data.t # "arr" THEN NavRaise("ValueError")
         ELSE IF ListAt(data, Head(segments).n).exc # ""
         THEN ListAt(data, Head(segments).n)
         ELSE navigate_path(ListAt(data, Head(segments).n).val, Tail(segments))
    ELSE IF data.t = "obj"
    THEN navigate_path(ObjGet(data, Head(segments).name), Tail(segments))
    ELSE NavRaise("ValueError")

(***************************************************************************)
(* get_qualified_indices.  A where clause is the sequence of its tokens:   *)
(* words (runs of \w characters), "=" and " " (one blank), no two words    *)
(* next to each other.                                                     *)
(***************************************************************************)
IsWord(tok) == tok \notin {"=", " "}

RECURSIVE SkipSpaces(_)
SkipSpaces(ts) == IF ts # <<>> /\ ts[1] = " " THEN SkipSpaces(Tail(ts)) ELSE ts

RECURSIVE Concat(_)
Concat(ts) == IF ts = <<>> THEN "" ELSE ts[1] \o Concat(Tail(ts))

\* re.match(r'(\w+)\s*=\s*(.+)', where_clause): [matched, field, value]
NoMatch == [matched |-> FALSE, field |-> "", value |-> ""]
WhereMatch(where_clause) ==
    IF where_clause = <<>> \/ ~IsWord(where_clause[1]) THEN NoMatch
    ELSE IF SkipSpaces(Tail(where_clause)) = <<>> THEN NoMatch
    ELSE IF SkipSpaces(Tail(where_clause))[1] # "=" THEN NoMatch
    ELSE LET after == Tail(SkipSpaces(Tail(where_clause))) IN
         IF SkipSpaces(after) # <<>>
         THEN [matched |-> TRUE, field |-> where_clause[1],
               value |-> Concat(SkipSpaces(after))]
         ELSE IF after # <<>>
         THEN [matched |-> TRUE, field |-> where_clause[1], value |-> " "]
         ELSE NoMatch

\* the coercion of the literal: true/false, all digits, else the string
WhereValue(raw) ==
    IF raw \in {"true", "True", "TRUE"} THEN BoolV(TRUE)
    ELSE IF raw \in {"false", "False", "FALSE"} THEN BoolV(FALSE)
    ELSE IF IsDigit(raw) THEN IntV(DigitValue(raw))
    ELSE StrV(raw)

\* lead.get(key), item.get(key), registry["fields"].get(field)
LeadGet(lead, key) == IF key \in Fields THEN lead[key] ELSE None
ItemGet(item, key) == IF key \in FieldNames THEN item[key] ELSE None
RegistryGet(reg, field) == IF field \in FieldNames THEN reg.fields[field] ELSE NoFile

\* v in S, for a set or list S of values
InValues(v, S) == \E m \in S : PyEq(m, v)

\* matching_indices: the index of every record whose field equals value
MatchingIndices(llm_data, field, value) ==
    {llm_data[i]["index"] : i \in {m \in 1..Len(llm_data) :
                                     PyEq(ItemGet(llm_data[m], field), value)}}

\* lead.get(index_field) of every lead, in lead order
IndexValues(ls, index_field) == [p \in 1..Len(ls) |-> LeadGet(ls[p], index_field)]

\* the registered branch: the leads whose own index value is in matching_indices
QualifiedFromFile(ls, files, output_file, field, value, index_field) ==
    IF ~files[output_file].exists THEN <<>>
    ELSE LET matching_indices == MatchingIndices(files[output_file].records, field, value)
             Hit(lead) == InValues(LeadGet(lead, index_field), matching_indices)
         IN IndexValues(SelectSeq(ls, Hit), index_field)

\* (variant: the registry is not consulted)
QualifiedFromLeads_only(ls, reg, files, field, value, index_field) ==
    LET Hit(lead) == PyEq(LeadGet(lead, field), value)
    IN IndexValues(SelectSeq(ls, Hit), index_field)

\* the legacy branch: the leads that carry field == value
QualifiedFromLeads(ls, field, value, index_field) ==
    LET Hit(lead) == PyEq(LeadGet(lead, field), value)
    IN IndexValues(SelectSeq(ls, Hit), index_field)

\* qualified, for a clause that matched
Qualified(ls, reg, files, field, value, index_field) ==
    IF RegistryGet(reg, field) # NoFile
    THEN QualifiedFromFile(ls, files, RegistryGet(reg, field), field, value, index_field)
    ELSE QualifiedFromLeads(ls, field, value, index_field)

get_qualified_indices(ls, reg, files, where_clause, index_field) ==
    IF ~WhereMatch(where_clause).matched
    THEN [exc |-> "ValueError", qualified |-> <<>>]
    ELSE [exc |-> "",
          qualified |-> Qualified(ls, reg, files, WhereMatch(where_clause).field,
                                  WhereValue(WhereMatch(where_clause).value),
                                  index_field)]

(***************************************************************************)
(* extract_data.  offset and limit are None or an int; fields is the       *)
(* projection dict as the sequence of its (key, path) items, empty when    *)
(* not given; an empty path is a path not given.                           *)
(***************************************************************************)
Truthy(v) == v # None /\ ~(IsNum(v) /\ v.n = 0) /\ v # StrV("")

Min2(a, b) == IF a <= b THEN a ELSE b
Max2(a, b) == IF a >= b THEN a ELSE b

\* Python's slice bound: a negative bound counts from the end
SliceBound(n, len) == IF n < 0 THEN Max2(len + n, 0) ELSE Min2(n, len)
\* seq[offset:] and seq[:limit]
SliceFrom(seq, offset) == SubSeq(seq, SliceBound(offset, Len(seq)) + 1, Len(seq))
SliceTo(seq, limit) == SubSeq(seq, 1, SliceBound(limit, Len(seq)))

ApplyOffset(seq, offset) == IF Truthy(offset) THEN SliceFrom(seq, offset.n) ELSE seq
ApplyLimit(seq, limit) == IF Truthy(limit) THEN SliceTo(seq, limit.n) ELSE seq

\* navigate_path(item, segments[1:]) when the first segment is 'all'
ItemSegments(segments) ==
    IF segments # <<>> /\ segments[1].type = "all" THEN Tail(segments) ELSE segments

\* the value of one path on one row; None when parsing or navigating raises
ValueOrNone(item, path) ==
    IF parse_path(path).exc # "" THEN JNull
    ELSE IF navigate_path(item, ItemSegments(parse_path(path).segments)).exc # ""
    THEN JNull
    ELSE navigate_path(item, ItemSegments(parse_path(path).segments)).val

\* multi-field projection of one row
Projection(item, fields) ==
    JObj([i \in 1..Len(fields) |-> Member(fields[i].key, ValueOrNone(item, fields[i].path))])

\* data[idx] for an idx below len(data)
RowAt(data, idx) ==
    IF idx.n >= 0 THEN NavOk(data[idx.n + 1])
    ELSE IF 0 - idx.n <= Len(data) THEN NavOk(data[Len(data) + idx.n + 1])
    ELSE NavRaise("IndexError")

\* the loop over indices_to_process; an exception leaves it
RECURSIVE ExtractLoop(_, _, _, _, _, _)
ExtractLoop(data, indices_to_process, k, path, fields, output_data) ==
    IF k > Len(indices_to_process)
    THEN [exc |-> "", data |-> output_data]
    ELSE LET idx == indices_to_process[k] IN
         IF ~IsNum(idx) THEN [exc |-> "TypeError", data |-> <<>>]
         ELSE IF idx.n >= Len(data)
         THEN ExtractLoop(data, indices_to_process, k + 1, path, fields, output_data)
         ELSE IF RowAt(data, idx).exc # ""
         THEN [exc |-> RowAt(data, idx).exc, data |-> <<>>]
         ELSE IF fields # <<>>
         THEN ExtractLoop(data, indices_to_process, k + 1, path, fields,
                  Append(output_data,
                         [index |-> idx, value |-> Projection(RowAt(data, idx).val, fields)]))
         ELSE IF parse_path(path).exc # ""
         THEN [exc |-> parse_path(path).exc, data |-> <<>>]
         ELSE ExtractLoop(data, indices_to_process, k + 1, path, fields,
                  Append(output_data,
                         [index |-> idx, value |-> ValueOrNone(RowAt(data, idx).val, path)]))

\* (variant: the handler of extract_data catches what an 'all' loop absorbs)
CaughtByExtract_absorbed(exc) == exc \in Absorbed

\* except Exception: the exception classes the body of extract_data can raise
CaughtByExtract(exc) == exc \in {"ValueError", "TypeError", "IndexError", "KeyError"}

\* ExtractOutput; status "raised" is an exception that left extract_data
ExtractError(error) == [status |-> "error", data |-> <<>>, count |-> 0, error |-> error]
ExtractSuccess(output_data) ==
    [status |-> "success", data |-> output_data, count |-> Len(output_data),
     error |-> ""]
ExtractRaised(exc) == [status |-> "raised", data |-> <<>>, count |-> 0, error |-> exc]

\* (variant: the row positions are numbered from 1)
AllIndices_from1(data) == [i \in 1..Len(data) |-> IntV(i)]

\* list(range(len(data)))
AllIndices(data) == [i \in 1..Len(data) |-> IntV(i - 1)]

\* the body of the try after the dataset is loaded: [exc, data]
ExtractFrom(data, indices, path, fields, offset, limit) ==
    ExtractLoop(data, ApplyLimit(ApplyOffset(indices, offset), limit),
                1, path, fields, <<>>)

\* the body of the try of extract_data: an ExtractOutput it returns, or the
\* exception it raises
ExtractBody(ls, reg, files, exists, data, source, path, fields, where, offset, limit) ==
    IF path = <<>> /\ fields = <<>>
    THEN [exc |-> "", output |-> ExtractError("Must provide either 'path' or 'fields'")]
    ELSE IF ~exists
    THEN [exc |-> "", output |-> ExtractError("Dataset not found")]
    ELSE LET q == IF where = <<>> THEN [exc |-> "", qualified |-> AllIndices(data)]
                  ELSE get_qualified_indices(ls, reg, files, where, IndexFieldOf(source))
         IN IF q.exc # "" THEN [exc |-> q.exc, output |-> ExtractError(q.exc)]
            ELSE LET r == ExtractFrom(data, q.qualified, path, fields, offset, limit)
                 IN IF r.exc # "" THEN [exc |-> r.exc, output |-> ExtractError(r.exc)]
                    ELSE [exc |-> "", output |-> ExtractSuccess(r.data)]

\* What extract_data returns on mapping ls, registry reg, output files files
\* and the dataset file of source (exists, data).
ExtractResult(ls, reg, files, exists, data, source, path, fields, where, offset, limit) ==
    LET b == ExtractBody(ls, reg, files, exists, data, source, path, fields,
                         where, offset, limit)
    IN IF b.exc = "" THEN b.output
       ELSE IF CaughtByExtract(b.exc) THEN ExtractError(b.exc)
       ELSE ExtractRaised(b.exc)

\* A load_json of extract_data or of get_qualified_indices raises: the
\* dataset file, then with a where filter the mapping, and for a clause that
\* matched the registry and the registered output file when it exists.
ReadFails(source, path, fields, where) ==
    /\ path # <<>> \/ fields # <<>>
    /\ datasets[source].exists
    /\ \/ Unreadable(filetext[source])
       \/ /\ where # <<>>
          /\ \/ Unreadable(mapfile)
             \/ /\ WhereMatch(where).matched
                /\ \/ Unreadable(filetext[RegistryFile])
                   \/ LET output_file == RegistryGet(registry, WhereMatch(where).field)
                      IN /\ output_file # NoFile
                         /\ outfiles[output_file].exists
                         /\ Unreadable(filetext[output_file])

\* What extract_data returns in the state, the mapping file holding ls when
\* it is readable: the exception of a failed read is caught and reported.
ExtractedOn(ls, source, path, fields, where, offset, limit) ==
    IF ReadFails(source, path, fields, where) THEN ExtractError("ValueError")
    ELSE ExtractResult(ls, registry, outfiles, datasets[source].exists,
                       rows[source], source, path, fields, where, offset, limit)
Extracted(source, path, fields, where, offset, limit) ==
    ExtractedOn(leads, source, path, fields, where, offset, limit)

extract_data(source, path, fields, where, offset, limit) ==
    /\ \E r \in {Extracted(source, path, fields, where, offset, limit)} :
          out' = Output(r.status)
    /\ UNCHANGED <<filetext, inflight, mapfile, leads, registry, datasets, rows, outfiles, nupdates>>

\* A call of extract_data(source, path, where=where) by process p, a step per
\* file it reads: the dataset, and with a where filter the mapping, the
\* registry and the output file the field is registered to.  The state
\* keeps the status of the ExtractOutput the call returned.
ExtractOp(source, path, where) ==
    [NoOp EXCEPT !.kind = "extract", !.source = source, !.path = path,
                 !.where = where]

\* data = load_json(dataset_path): no path, no dataset and load_json raising
\* end the call with status error, and so does the extraction when there is
\* no where filter
extract_read(p, source, path, where) ==
    /\ inflight[p].pc = "idle"
    /\ IF \/ path = <<>> \/ where = <<>>
          \/ ~datasets[source].exists \/ Unreadable(filetext[source])
       THEN /\ out' = Output(Extracted(source, path, <<>>, <<>>, None, None).status)
            /\ UNCHANGED inflight
       ELSE /\ inflight' = [inflight EXCEPT ![p] =
                              [Idle EXCEPT !.pc = "data",
                                           !.op = ExtractOp(source, path, where),
                                           !.items = rows[source],
                                           !.saved = inflight[p].saved]]
            /\ UNCHANGED out
    /\ UNCHANGED <<filetext, mapfile, leads, registry, datasets, rows, outfiles, nupdates>>

\* mapping = load_mapping(), and the match of the where clause in
\* get_qualified_indices: the load raising and a clause that does not match
\* end the call with status error
extract_load_mapping(p) ==
    /\ inflight[p].pc = "data"
    /\ inflight[p].op.kind = "extract"
    /\ IF LoadMapping(mapfile, leads).exc # "" \/ ~WhereMatch(inflight[p].op.where).matched
       THEN /\ inflight' = Ended(p)
            /\ out' = Output("error")
       ELSE /\ inflight' = [inflight EXCEPT ![p] =
                              [@ EXCEPT !.pc = "mapped", !.mapping = leads]]
            /\ UNCHANGED out
    /\ UNCHANGED <<filetext, mapfile, leads, registry, datasets, rows, outfiles, nupdates>>

\* registry = load_registry() in get_qualified_indices: the load raising ends
\* the call with status error; a field with no registration is looked up in
\* the leads and the call returns
extract_load_registry(p) ==
    /\ inflight[p].pc = "mapped"
    /\ inflight[p].op.kind = "extract"
    /\ IF Unreadable(filetext[RegistryFile])
       THEN /\ inflight' = Ended(p)
            /\ out' = Output("error")
       ELSE IF RegistryGet(registry, WhereMatch(inflight[p].op.where).field) = NoFile
       THEN /\ inflight' = Ended(p)
            /\ out' = Output(ExtractResult(inflight[p].mapping, registry, outfiles,
                                           TRUE, inflight[p].items,
                                           inflight[p].op.source, inflight[p].op.path,
                                           <<>>, inflight[p].op.where, None,
                                           None).status)
       ELSE /\ inflight' = [inflight EXCEPT ![p] =
                              [@ EXCEPT !.pc = "resolved", !.newreg = registry]]
            /\ UNCHANGED out
    /\ UNCHANGED <<filetext, mapfile, leads, registry, datasets, rows, outfiles, nupdates>>

\* llm_data = load_json(filepath) of the registered output file when it
\* exists, and the rest of the call on what it read: the load raising ends
\* the call with status error.  Files are never removed, so os.path.exists
\* and the load_json after it are one step.
extract_read_file(p) ==
    /\ inflight[p].pc = "resolved"
    /\ inflight[p].op.kind = "extract"
    /\ LET output_file == RegistryGet(inflight[p].newreg,
                                      WhereMatch(inflight[p].op.where).field)
       IN out' = IF outfiles[output_file].exists /\ Unreadable(filetext[output_file])
                 THEN Output("error")
                 ELSE Output(ExtractResult(inflight[p].mapping, inflight[p].newreg,
                                           outfiles, TRUE, inflight[p].items,
                                           inflight[p].op.source, inflight[p].op.path,
                                           <<>>, inflight[p].op.where, None,
                                           None).status)
    /\ inflight' = Ended(p)
    /\ UNCHANGED <<filetext, mapfile, leads, registry, datasets, rows, outfiles, nupdates>>

\* to_save = [item['value'] for item in output.data]
ToSave(output_data) == [i \in 1..Len(output_data) |-> output_data[i].value]

\* The rows of the dataset files after the extract command: a successful
\* extraction with entries is written as the dataset save_name.
SavedRows(rs, r, save_name) ==
    IF r.status = "success" /\ r.data # <<>>
    THEN [rs EXCEPT ![save_name] = ToSave(r.data)]
    ELSE rs

\* the extract command with --save-name
extract(source, path, fields, where, offset, limit, save_name) ==
    /\ \E r \in {Extracted(source, path, fields, where, offset, limit)} :
          /\ rows' = SavedRows(rows, r, save_name)
          /\ datasets' = IF r.status = "success" /\ r.data # <<>>
                         THEN [datasets EXCEPT ![save_name] =
                                  [exists |-> TRUE, count |-> Len(r.data)]]
                         ELSE datasets
          /\ out' = Output(r.status)
    /\ UNCHANGED <<filetext, inflight, mapfile, leads, registry, outfiles, nupdates>>

(***************************************************************************)
(* The process command of llm/process.py: extract the items, drop the ones *)
(* the results file already has, hand the rest to the LLM, append what it  *)
(* returns to the results file and register the file.  all_results is what *)
(* the calls of call_llm returned, which the command does not control.     *)
(***************************************************************************)
\* the index values of the records of a results file, None left out
IndicesOf(records) ==
    {records[i]["index"] : i \in {m \in 1..Len(records) : records[m]["index"] # None}}

\* (variant: the items already in the results file are not skipped)
ItemsToProcess_all(extracted, existing) ==
    LET HasValue(item) == item.value # JNull
    IN SelectSeq(extracted, HasValue)

\* the items handed to the LLM: a value, and an index not yet processed
ItemsToProcess(extracted, existing) ==
    LET Fresh(item) == item.value # JNull /\ ~InValues(item.index, IndicesOf(existing))
    IN SelectSeq(extracted, Fresh)

\* (variant: the safety net finds no duplicate)
Duplicates_none(existing, all_results) == {}

\* existing_indices & new_indices
Duplicates(existing, all_results) ==
    {v \in IndicesOf(existing) : InValues(v, IndicesOf(all_results))}

ProcessOutput(status, processed, files, reg) ==
    [status |-> status, processed |-> processed, files |-> files, registry |-> reg]

\* The command up to its first call of call_llm: it reports an error, or
\* success with nothing to process, or goes on (status "llm") with the items
\* it hands to the LLM.
ProcessStart(ls, reg, files, exists, data, source, path, fields, where, results_file) ==
    LET e == ExtractResult(ls, reg, files, exists, data, source, path, fields,
                           where, None, None)
    IN IF path = <<>> /\ fields = <<>> THEN [status |-> "error", items |-> <<>>]
       ELSE IF e.status = "error" THEN [status |-> "error", items |-> <<>>]
       ELSE IF e.data = <<>> THEN [status |-> "error", items |-> <<>>]
       ELSE IF ItemsToProcess(e.data, files[results_file].records) = <<>>
       THEN [status |-> "success", items |-> <<>>]
       ELSE [status |-> "llm",
             items |-> ItemsToProcess(e.data, files[results_file].records)]

\* The command after its last call of call_llm returned: it reads the results
\* file again, checks the new results against it, writes the file and
\* registers it.
ProcessFinish(ls, reg, files, source, results_file, all_results) ==
    IF Duplicates(files[results_file].records, all_results) # {}
    THEN ProcessOutput("error", 0, files, reg)
    ELSE ProcessOutput("success", Len(all_results),
            [files EXCEPT ![results_file] =
                [exists |-> TRUE, records |-> @.records \o all_results]],
            BulkResult(ls, reg, IndexFieldOf(source), all_results, results_file).registry)

\* What a run of process that no other call interrupts does to the results
\* file and the registry, and its output.
ProcessResult(ls, reg, files, exists, data, source, path, fields, where, results_file, all_results) ==
    LET start == ProcessStart(ls, reg, files, exists, data, source, path, fields,
                              where, results_file)
    IN IF start.status # "llm" THEN ProcessOutput(start.status, 0, files, reg)
       ELSE ProcessFinish(ls, reg, files, source, results_file, all_results)

\* One call of call_llm: the records parsed from the model's answer, or []
\* when the call or the parsing raised (the exception is printed and dropped).
Answer(failed, records) == [failed |-> failed, records |-> records]
call_llm(answer) == IF answer.failed THEN <<>> ELSE answer.records

\* the number of batches of range(0, len(items), batch_size)
NumBatches(n, batch_size) == (n + batch_size - 1) \div batch_size

\* all_results.extend(results), batch after batch
RECURSIVE AllResults(_)
AllResults(answers) ==
    IF answers = <<>> THEN <<>>
    ELSE call_llm(Head(answers)) \o AllResults(Tail(answers))

\* the items the command hands to the LLM, none when it returns before
ItemsFor(ls, reg, files, exists, data, source, path, fields, where, results_file) ==
    ProcessStart(ls, reg, files, exists, data, source, path, fields, where,
                 results_file).items

\* A run of process is a step of process p per file it reads or writes, and
\* it waits in every call of call_llm (a request to the LLM provider): the
\* return of a call is a step.
ProcessOp(source, results_file, batch_size) ==
    [NoOp EXCEPT !.kind = "process", !.source = source, !.results_file = results_file,
                 !.batch_size = batch_size]

\* The length of the text json.dump(records, f, indent=2) writes for the
\* list of records of a results file: "[]", or the records on their lines
\* between "[" and "]", a record being "{}" or its members on their lines.
SumOver(S, Length(_)) ==
    LET sum[T \in SUBSET S] ==
           IF T = {} THEN 0
           ELSE LET x == CHOOSE y \in T : TRUE IN Length(x) + sum[T \ {x}]
    IN sum[S]
RecordLen(result) ==
    LET Line(k) == 4 + (KeyLen(k) + 2) + 2 + ValueLen(result[k])
    IN IF Keys(result) = {} THEN 2 + 2
       ELSE (2 + 2) + SumOver(Keys(result), Line)
               + 2 * (Cardinality(Keys(result)) - 1) + (1 + 2 + 1)
RecordsLen(records) ==
    LET Record(i) == RecordLen(records[i])
    IN IF records = <<>> THEN 2
       ELSE 2 + SumOver(1..Len(records), Record) + 2 * (Len(records) - 1) + 2

\* The length of the text json.dump(registry, f, indent=2) writes.
FileNameLen(o) == IF o = "postData_passedRelevance.json" THEN 29 ELSE 25
FieldListLen(fields) ==
    LET Line(k) == 8 + (KeyLen(k) + 2)
    IN IF fields = {} THEN 2
       ELSE 2 + SumOver(fields, Line) + 2 * (Cardinality(fields) - 1) + (1 + 6 + 1)
FileEntryLen(reg, o) ==
    4 + (FileNameLen(o) + 2) + 2 + 2
      + (6 + 8 + 2 + FieldListLen(reg.files[o].fields)) + 2
      + (6 + 13 + 2 + (KeyLen(reg.files[o].index_field) + 2)) + (1 + 4 + 1)
RegistryLen(reg) ==
    LET registered == {o \in OutputFiles : reg.files[o].registered}
        resolved == {k \in FieldNames : reg.fields[k] # NoFile}
        Entry(o) == FileEntryLen(reg, o)
        Line(k) == 4 + (KeyLen(k) + 2) + 2 + (FileNameLen(reg.fields[k]) + 2)
        files == IF registered = {} THEN 2
                 ELSE 2 + SumOver(registered, Entry)
                        + 2 * (Cardinality(registered) - 1) + (1 + 2 + 1)
        fields == IF resolved = {} THEN 2
                  ELSE 2 + SumOver(resolved, Line)
                         + 2 * (Cardinality(resolved) - 1) + (1 + 2 + 1)
    IN 2 + (2 + 7 + 2 + files) + 2 + (2 + 8 + 2 + fields) + 2

\* The text of a file after a text of written characters is written at its
\* start, the file holding the JSON of held characters when it is readable:
\* the new text replaces the old one when it is at least as long, else the
\* end of the old text stays behind it and the file is no JSON.
TextAfter(file, held, written) ==
    LET len == IF file.kind = "json" THEN held ELSE file.len
    IN IF written >= len THEN Readable ELSE [kind |-> "garbled", len |-> len]

\* the command cannot read a file it needs before its first call of call_llm:
\* what extract_data reads, registry.json, the results file
StartFails(source, path, fields, where, results_file) ==
    \/ ReadFails(source, path, fields, where)
    \/ Unreadable(filetext[RegistryFile])
    \/ outfiles[results_file].exists /\ Unreadable(filetext[results_file])

\* process p starts the command with --path and no --fields or --where:
\* extract_data reads the dataset; an error output and no entry end the
\* command with status error
process_extract(p, source, path, results_file, batch_size) ==
    /\ inflight[p].pc = "idle"
    /\ \E e \in {Extracted(source, path, <<>>, <<>>, None, None)} :
          IF e.status # "success" \/ e.data = <<>>
          THEN /\ out' = Output("error")
               /\ UNCHANGED inflight
          ELSE /\ inflight' = [inflight EXCEPT ![p] =
                                 [Idle EXCEPT !.pc = "extracted",
                                              !.op = ProcessOp(source, results_file,
                                                               batch_size),
                                              !.items = e.data,
                                              !.saved = inflight[p].saved]]
               /\ UNCHANGED out
    /\ UNCHANGED <<filetext, mapfile, leads, registry, datasets, rows, outfiles, nupdates>>

\* registry = load_registry(): the command makes no use of the registry it
\* loads, but an exception of load_json ends it with status error
process_load_registry(p) ==
    /\ inflight[p].pc = "extracted"
    /\ inflight[p].op.kind = "process"
    /\ IF Unreadable(filetext[RegistryFile])
       THEN /\ inflight' = Ended(p)
            /\ out' = Output("error")
       ELSE /\ inflight' = [inflight EXCEPT ![p] = [@ EXCEPT !.pc = "registry"]]
            /\ UNCHANGED out
    /\ UNCHANGED <<filetext, mapfile, leads, registry, datasets, rows, outfiles, nupdates>>

\* The command reads the results file when it exists and drops the items
\* whose index it holds: load_json raising ends the command with status
\* error, no item left ends it with status success, and otherwise the
\* command goes into its first call of call_llm.
process_read_results(p) ==
    /\ inflight[p].pc = "registry"
    /\ LET results_file == inflight[p].op.results_file
           items == ItemsToProcess(inflight[p].items, outfiles[results_file].records)
       IN IF outfiles[results_file].exists /\ Unreadable(filetext[results_file])
          THEN /\ inflight' = Ended(p)
               /\ out' = Output("error")
          ELSE IF items = <<>>
          THEN /\ inflight' = Ended(p)
               /\ out' = Output("success")
          ELSE /\ inflight' = [inflight EXCEPT ![p] =
                                 [@ EXCEPT !.pc = "llm", !.items = <<>>,
                                           !.calls = NumBatches(Len(items),
                                                        inflight[p].op.batch_size)]]
               /\ UNCHANGED out
    /\ UNCHANGED <<filetext, mapfile, leads, registry, datasets, rows, outfiles, nupdates>>

\* a call of call_llm that is not the last one of the run returns
process_batch(p, answer) ==
    /\ inflight[p].pc = "llm"
    /\ inflight[p].calls > 1
    /\ inflight' = [inflight EXCEPT ![p] =
                       [@ EXCEPT !.calls = @ - 1,
                                 !.all_results = @ \o call_llm(answer)]]
    /\ UNCHANGED <<filetext, mapfile, leads, registry, datasets, rows, outfiles, nupdates, out>>

\* existing_results: the records of the results file, [] when there is no
\* file or load_json raises on it
ExistingResults(file, held) == IF Unreadable(file) THEN <<>> ELSE held

\* The last call of call_llm returns; the command reads the results file
\* again and checks the new results against it: a duplicate index ends the
\* command with status error, else it holds combined_results.
process_reread(p, answer) ==
    /\ inflight[p].pc = "llm"
    /\ inflight[p].calls = 1
    /\ LET results_file == inflight[p].op.results_file
           all_results == inflight[p].all_results \o call_llm(answer)
           existing_results == ExistingResults(filetext[results_file],
                                               outfiles[results_file].records)
       IN IF Duplicates(existing_results, all_results) # {}
          THEN /\ inflight' = Ended(p)
               /\ out' = Output("error")
          ELSE /\ Len(existing_results \o all_results) <= MaxFileLen
               /\ inflight' = [inflight EXCEPT ![p] =
                                  [@ EXCEPT !.pc = "combined", !.calls = 0,
                                            !.all_results = all_results,
                                            !.records = existing_results \o all_results]]
               /\ UNCHANGED out
    /\ UNCHANGED <<filetext, mapfile, leads, registry, datasets, rows, outfiles, nupdates>>

\* save_json(results_path, combined_results), first half: open(filepath, 'w')
\* creates the file or empties it
process_save_open(p) ==
    /\ inflight[p].pc = "combined"
    /\ inflight[p].op.kind = "process"
    /\ filetext' = [filetext EXCEPT ![inflight[p].op.results_file] = Emptied]
    /\ outfiles' = [outfiles EXCEPT ![inflight[p].op.results_file].exists = TRUE]
    /\ inflight' = [inflight EXCEPT ![p] = [@ EXCEPT !.pc = "fileopen"]]
    /\ UNCHANGED <<mapfile, leads, registry, datasets, rows, nupdates, out>>

\* save_json(results_path, combined_results), second half: json.dump writes
\* the text and the file is closed
process_save_write(p) ==
    /\ inflight[p].pc = "fileopen"
    /\ inflight[p].op.kind = "process"
    /\ LET results_file == inflight[p].op.results_file
           text == TextAfter(filetext[results_file],
                             RecordsLen(outfiles[results_file].records),
                             RecordsLen(inflight[p].records))
       IN /\ filetext' = [filetext EXCEPT ![results_file] = text]
          /\ outfiles' = IF text = Readable
                         THEN [outfiles EXCEPT ![results_file].records =
                                  inflight[p].records]
                         ELSE outfiles
    /\ inflight' = [inflight EXCEPT ![p] = [@ EXCEPT !.pc = "written"]]
    /\ UNCHANGED <<mapfile, leads, registry, datasets, rows, nupdates, out>>

\* bulk_update_mapping(index_field, all_results, output_file=results_file)
\* loads the mapping first; an exception is caught there and returned as an
\* output the command does not look at, so that it prints status success
\* with nothing registered
process_bulk_load(p) ==
    /\ inflight[p].pc = "written"
    /\ inflight[p].op.kind = "process"
    /\ IF LoadMapping(mapfile, leads).exc # ""
       THEN /\ inflight' = Ended(p)
            /\ out' = Output("success")
       ELSE /\ inflight' = [inflight EXCEPT ![p] = [@ EXCEPT !.pc = "bulk"]]
            /\ UNCHANGED out
    /\ UNCHANGED <<filetext, mapfile, leads, registry, datasets, rows, outfiles, nupdates>>

\* register_llm_output loads the registry and sets the entries of the file
\* in its copy; load_registry raising ends bulk_update_mapping the same way
process_register_load(p) ==
    /\ inflight[p].pc = "bulk"
    /\ IF Unreadable(filetext[RegistryFile])
       THEN /\ inflight' = Ended(p)
            /\ out' = Output("success")
       ELSE /\ inflight' = [inflight EXCEPT ![p] =
                              [@ EXCEPT !.pc = "regloaded",
                                        !.newreg = register_llm_output(registry,
                                                      inflight[p].op.results_file,
                                                      ResultFields(inflight[p].all_results),
                                                      IndexFieldOf(inflight[p].op.source))]]
            /\ UNCHANGED out
    /\ UNCHANGED <<filetext, mapfile, leads, registry, datasets, rows, outfiles, nupdates>>

\* A call of register_llm_output by process p itself, up to its save:
\* load_registry raising leaves the call.
RegisterOp(output_file) == [NoOp EXCEPT !.kind = "register", !.results_file = output_file]
register_load(p, output_file, fields, index_field) ==
    /\ inflight[p].pc = "idle"
    /\ IF Unreadable(filetext[RegistryFile])
       THEN /\ out' = Output("raised")
            /\ UNCHANGED inflight
       ELSE /\ inflight' = [inflight EXCEPT ![p] =
                              [Idle EXCEPT !.pc = "regloaded",
                                           !.op = RegisterOp(output_file),
                                           !.newreg = register_llm_output(registry,
                                                         output_file, fields, index_field),
                                           !.saved = inflight[p].saved]]
            /\ UNCHANGED out
    /\ UNCHANGED <<filetext, mapfile, leads, registry, datasets, rows, outfiles, nupdates>>

\* save_registry(registry), first half: open(filepath, 'w') empties the file
registry_save_open(p) ==
    /\ inflight[p].pc = "regloaded"
    /\ filetext' = [filetext EXCEPT ![RegistryFile] = Emptied]
    /\ inflight' = [inflight EXCEPT ![p] = [@ EXCEPT !.pc = "regopen"]]
    /\ UNCHANGED <<mapfile, leads, registry, datasets, rows, outfiles, nupdates, out>>

\* save_registry(registry), second half: json.dump writes the text and the
\* file is closed; register_llm_output returns, and so does the command
registry_save_write(p) ==
    /\ inflight[p].pc = "regopen"
    /\ LET text == TextAfter(filetext[RegistryFile], RegistryLen(registry),
                             RegistryLen(inflight[p].newreg))
       IN /\ filetext' = [filetext EXCEPT ![RegistryFile] = text]
          /\ registry' = IF text = Readable THEN inflight[p].newreg ELSE registry
    /\ inflight' = Ended(p)
    /\ out' = Output("success")
    /\ UNCHANGED <<mapfile, leads, datasets, rows, outfiles, nupdates>>

(***************************************************************************)
(* scrape_profiles of linkedin_profile_scraper.py: extract the URLs of the *)
(* source rows, drop the rows whose lead is linked, hand the cleaned URLs  *)
(* to the actor, append what it returns to the target dataset and link the *)
(* source indices.  actor is the outcome of run_actor, which the command   *)
(* does not control: it failed, or it returned items.                      *)
(***************************************************************************)
\* the truth value of a JSON value: "if item['value']"
JTruthy(v) ==
    CASE v.t = "null" -> FALSE
      [] v.t = "int" -> v.n # 0
      [] v.t = "str" -> v.s # ""
      [] OTHER -> v.kids # <<>>

\* url.split('?')[0] on the URLs of the rows
CleanUrl(u) == IF u = "a?q" THEN "a" ELSE u

\* the extracted entries with a value: zip(source_indices, raw_urls)
WithUrl(extracted) ==
    LET HasUrl(item) == JTruthy(item.value)
    IN SelectSeq(extracted, HasUrl)

\* already_scraped: the source index of every lead that has a target index
AlreadyScraped(ls, source_index_field, target_index_field) ==
    {ls[p][source_index_field] : p \in {q \in 1..Len(ls) : ls[q][target_index_field] # None}}

\* filtered_data: the entries whose index is not in already_scraped
FilteredData(ls, extracted, source_index_field, target_index_field) ==
    LET New(item) ==
            ~\E v \in AlreadyScraped(ls, source_index_field, target_index_field) :
                PyEq(item.index, v)
    IN SelectSeq(WithUrl(extracted), New)

\* the queries handed to the actor, and the source indices kept for linking
Queries(filtered_data) ==
    [i \in 1..Len(filtered_data) |-> CleanUrl(filtered_data[i].value.s)]
KeptIndices(filtered_data) ==
    [i \in 1..Len(filtered_data) |-> filtered_data[i].index.n]

\* the outcome of run_actor
ActorAnswer(failed, items) == [failed |-> failed, items |-> items]

\* the output of the command with what it leaves behind: the target dataset
\* (written tells whether the file was written), the mapping, the source
\* indices it linked
ScrapeOutput(status, target, written, ls, linked) ==
    [status |-> status, rows |-> target, written |-> written, leads |-> ls,
     linked |-> linked]

\* scrape_profiles up to its call of run_actor, on mapping ls and the source
\* dataset (exists, data): an error output of extract_data, an exception
\* leaving it and a URL that is no str end the command with status error,
\* nothing new to scrape ends it with status success, and otherwise the
\* command calls the actor (status actor) for filtered_data.
ScrapeStart(ls, reg, files, exists, data, source, path, where, limit, save_name) ==
    LET extraction == ExtractResult(ls, reg, files, exists, data, source, path,
                                    <<>>, where, None, limit)
        filtered_data == FilteredData(ls, extraction.data, IndexFieldOf(source),
                                      IndexFieldOf(save_name))
    IN IF extraction.status # "success"
       THEN [status |-> "error", filtered_data |-> <<>>]
       ELSE IF filtered_data = <<>>
       THEN [status |-> "success", filtered_data |-> <<>>]
       ELSE IF \E i \in 1..Len(filtered_data) : filtered_data[i].value.t # "str"
       THEN [status |-> "error", filtered_data |-> <<>>]
       ELSE [status |-> "actor", filtered_data |-> filtered_data]

\* scrape_profiles from the return of run_actor, on the mapping ls and the
\* target dataset it finds then: a failed actor ends the command with status
\* error; otherwise the items are appended to the target dataset and the
\* source indices kept before the call are linked, and an exception leaving
\* link_indices_func ends in status error after the dataset was written.
ScrapeFinish(ls, target, source, save_name, source_indices, actor) ==
    IF actor.failed
    THEN ScrapeOutput("error", target, FALSE, ls, <<>>)
    ELSE LET link_result == LinkResult(ls, IndexFieldOf(source), source_indices,
                                       IndexFieldOf(save_name), FALSE)
         IN IF link_result.status = "raised"
            THEN ScrapeOutput("error", target \o actor.items, TRUE, ls, <<>>)
            ELSE ScrapeOutput("success", target \o actor.items, TRUE,
                              link_result.leads, link_result.linked)

\* What a run of scrape_profiles that no other call interleaves with does on
\* mapping ls, the source dataset (exists, data) and the target dataset.
ScrapeResult(ls, reg, files, exists, data, target, source, path, where, limit, save_name, actor) ==
    LET start == ScrapeStart(ls, reg, files, exists, data, source, path, where,
                             limit, save_name)
    IN IF start.status # "actor"
       THEN ScrapeOutput(start.status, target, FALSE, ls, <<>>)
       ELSE ScrapeFinish(ls, target, source, save_name,
                         KeptIndices(start.filtered_data), actor)

\* The length of the text json.dump(final_data, f, indent=2) writes for the
\* rows of a dataset; depth is the nesting of the value.  The strings of the
\* rows of the model have one character, but for "a?q" and the key "url".
StrLen(x) == IF x = "" THEN 0 ELSE IF x \in {"a?q", "url"} THEN 3 ELSE 1
RECURSIVE JsonLen(_, _)
JsonLen(v, depth) ==
    LET Line(i) ==
           2 * (depth + 1)
             + (IF v.t = "obj" THEN (StrLen(v.kids[i].k) + 2) + 2 ELSE 0)
             + JsonLen(v.kids[i].v, depth + 1)
    IN CASE v.t = "null" -> 4
         [] v.t = "int" -> DecLen(v.n)
         [] v.t = "str" -> StrLen(v.s) + 2
         [] OTHER -> IF v.kids = <<>> THEN 2
                     ELSE 2 + SumOver(1..Len(v.kids), Line) + 2 * (Len(v.kids) - 1)
                            + (1 + 2 * depth + 1)
RowsLen(data) == JsonLen(JArr(data), 0)

\* A scraper (search_posts of linkedin_post_search.py) from the return of
\* run_actor with results, a step of process p per access to the dataset
\* file save_name.
ScraperOp(save_name) == [NoOp EXCEPT !.kind = "scraper", !.save_name = save_name]

\* run_actor returned results; the scraper reads the dataset file and holds
\* final_data = existing_data + results
scraper_read(p, save_name, results) ==
    /\ inflight[p].pc = "idle"
    /\ Len(ExistingData(save_name) \o results) <= MaxRows
    /\ inflight' = [inflight EXCEPT ![p] =
                       [Idle EXCEPT !.pc = "combined", !.op = ScraperOp(save_name),
                                    !.records = ExistingData(save_name) \o results,
                                    !.saved = inflight[p].saved]]
    /\ UNCHANGED <<filetext, mapfile, leads, registry, datasets, rows, outfiles, nupdates, out>>

\* open(filename, 'w') creates the dataset file or empties it
scraper_open(p) ==
    /\ inflight[p].pc = "combined"
    /\ inflight[p].op.kind = "scraper"
    /\ filetext' = [filetext EXCEPT ![inflight[p].op.save_name] = Emptied]
    /\ datasets' = [datasets EXCEPT ![inflight[p].op.save_name].exists = TRUE]
    /\ inflight' = [inflight EXCEPT ![p] = [@ EXCEPT !.pc = "fileopen"]]
    /\ UNCHANGED <<mapfile, leads, registry, rows, outfiles, nupdates, out>>

\* json.dump(final_data, f, indent=2) writes the text, the file is closed
\* and the scraper prints status success
scraper_write(p) ==
    /\ inflight[p].pc = "fileopen"
    /\ inflight[p].op.kind = "scraper"
    /\ LET save_name == inflight[p].op.save_name
           text == TextAfter(filetext[save_name], RowsLen(rows[save_name]),
                             RowsLen(inflight[p].records))
       IN /\ filetext' = [filetext EXCEPT ![save_name] = text]
          /\ rows' = IF text = Readable
                     THEN [rows EXCEPT ![save_name] = inflight[p].records]
                     ELSE rows
          /\ datasets' = IF text = Readable
                         THEN [datasets EXCEPT ![save_name].count =
                                  Len(inflight[p].records)]
                         ELSE datasets
    /\ inflight' = Ended(p)
    /\ out' = Output("success")
    /\ UNCHANGED <<mapfile, leads, registry, outfiles, nupdates>>

\* A run of scrape_profiles is a step of process p per file it reads or
\* writes, and it waits in run_actor (a run of the Apify actor): the return
\* of the actor is a step.
ScrapeOp(source, save_name, source_indices, queries) ==
    [NoOp EXCEPT !.kind = "scrape", !.source = source, !.save_name = save_name,
                 !.index_field = IndexFieldOf(source),
                 !.target_index_field = IndexFieldOf(save_name),
                 !.source_indices = source_indices, !.queries = queries]

\* process p starts the command with no --where: extract_data reads the
\* source dataset, and an error output ends the command with status error
scrape_extract(p, source, path, limit, save_name) ==
    /\ inflight[p].pc = "idle"
    /\ \E extraction \in {Extracted(source, path, <<>>, <<>>, None, limit)} :
          IF extraction.status # "success"
          THEN /\ out' = Output("error")
               /\ UNCHANGED inflight
          ELSE /\ inflight' = [inflight EXCEPT ![p] =
                                 [Idle EXCEPT !.pc = "extracted",
                                              !.op = ScrapeOp(source, save_name,
                                                              <<>>, <<>>),
                                              !.items = extraction.data,
                                              !.saved = inflight[p].saved]]
               /\ UNCHANGED out
    /\ UNCHANGED <<filetext, mapfile, leads, registry, datasets, rows, outfiles, nupdates>>

\* mapping = load_mapping() and the filter of the entries already scraped:
\* the load raising and a URL that is no str end the command with status
\* error, nothing new to scrape ends it with status success, and otherwise
\* the command calls run_actor with the cleaned URLs
scrape_load(p) ==
    /\ inflight[p].pc = "extracted"
    /\ inflight[p].op.kind = "scrape"
    /\ LET filtered_data == FilteredData(leads, inflight[p].items,
                                         inflight[p].op.index_field,
                                         inflight[p].op.target_index_field)
       IN IF LoadMapping(mapfile, leads).exc # ""
          THEN /\ inflight' = Ended(p)
               /\ out' = Output("error")
          ELSE IF filtered_data = <<>>
          THEN /\ inflight' = Ended(p)
               /\ out' = Output("success")
          ELSE IF \E i \in 1..Len(filtered_data) : filtered_data[i].value.t # "str"
          THEN /\ inflight' = Ended(p)
               /\ out' = Output("error")
          ELSE /\ inflight' = [inflight EXCEPT ![p] =
                                 [@ EXCEPT !.pc = "actor", !.items = <<>>,
                                           !.op = ScrapeOp(inflight[p].op.source,
                                                     inflight[p].op.save_name,
                                                     KeptIndices(filtered_data),
                                                     Queries(filtered_data))]]
               /\ UNCHANGED out
    /\ UNCHANGED <<filetext, mapfile, leads, registry, datasets, rows, outfiles, nupdates>>

\* run_actor returns: a failed actor ends the command with status error;
\* else the command reads the target dataset (existing_data, [] when there is
\* no file or json.load raises on it) and holds final_data
scrape_reread(p, actor) ==
    /\ inflight[p].pc = "actor"
    /\ IF actor.failed
       THEN /\ inflight' = Ended(p)
            /\ out' = Output("error")
       ELSE LET existing_data == ExistingData(inflight[p].op.save_name)
            IN /\ Len(existing_data \o actor.items) <= MaxRows
               /\ inflight' = [inflight EXCEPT ![p] =
                                  [@ EXCEPT !.pc = "combined",
                                            !.records = existing_data \o actor.items]]
               /\ UNCHANGED out
    /\ UNCHANGED <<filetext, mapfile, leads, registry, datasets, rows, outfiles, nupdates>>

\* open(filename, 'w') creates the target dataset file or empties it
scrape_save_open(p) ==
    /\ inflight[p].pc = "combined"
    /\ inflight[p].op.kind = "scrape"
    /\ filetext' = [filetext EXCEPT ![inflight[p].op.save_name] = Emptied]
    /\ datasets' = [datasets EXCEPT ![inflight[p].op.save_name].exists = TRUE]
    /\ inflight' = [inflight EXCEPT ![p] = [@ EXCEPT !.pc = "fileopen"]]
    /\ UNCHANGED <<mapfile, leads, registry, rows, outfiles, nupdates, out>>

\* json.dump(final_data, f, indent=2) writes the text and the file is closed
scrape_save_write(p) ==
    /\ inflight[p].pc = "fileopen"
    /\ inflight[p].op.kind = "scrape"
    /\ LET save_name == inflight[p].op.save_name
           text == TextAfter(filetext[save_name], RowsLen(rows[save_name]),
                             RowsLen(inflight[p].records))
       IN /\ filetext' = [filetext EXCEPT ![save_name] = text]
          /\ rows' = IF text = Readable
                     THEN [rows EXCEPT ![save_name] = inflight[p].records]
                     ELSE rows
          /\ datasets' = IF text = Readable
                         THEN [datasets EXCEPT ![save_name].count =
                                  Len(inflight[p].records)]
                         ELSE datasets
    /\ inflight' = [inflight EXCEPT ![p] = [@ EXCEPT !.pc = "written"]]
    /\ UNCHANGED <<mapfile, leads, registry, outfiles, nupdates, out>>

\* link_indices_func(source_index_field, source_indices, target_index_field)
\* loads the mapping; the exception of a failed load ends the command with
\* status error.  The save of the linked mapping is save_mapping_open and
\* save_mapping_write, after which the command prints status success.
scrape_link_load(p) ==
    /\ inflight[p].pc = "written"
    /\ inflight[p].op.kind = "scrape"
    /\ IF LoadMapping(mapfile, leads).exc # ""
       THEN /\ inflight' = Ended(p)
            /\ out' = Output("error")
       ELSE /\ inflight' = [inflight EXCEPT ![p] =
                              [@ EXCEPT !.pc = "loaded", !.mapping = leads,
                                        !.records = <<>>]]
            /\ UNCHANGED out
    /\ UNCHANGED <<filetext, mapfile, leads, registry, datasets, rows, outfiles, nupdates>>

(***************************************************************************)
(* The inputs the operations are called with.                              *)
(***************************************************************************)
RowIndices == 0..(MaxRows - 1)
SeqsUpTo(S, n) == UNION {[1..m -> S] : m \in 0..n}
SourceIndexLists == SeqsUpTo(RowIndices, MaxLinkLen)
IndexSets == SUBSET RowIndices
RawValues == {"true", "x", "1"}
UpdateValues == {BoolV(TRUE), IntV(0)}
ResultRecords ==
    {r \in [FieldNames -> {None, IntV(0), IntV(1), BoolV(FALSE)}] :
        /\ r["index"].t \in {"none", "int"}
        /\ \A k \in EnrichFields : r[k].t \in {"none", "bool"}}
ResultBatches == SeqsUpTo(ResultRecords, MaxResults)
\* the rows the scraping stages append: k rows of the same plain object
PlainRow == JObj(<<Member("x", JInt(1))>>)
PlainRows(k) == [i \in 1..k |-> PlainRow]
\* the shapes of a row: an object with x, an object without x, no object
RowShapes == {PlainRow, JObj(<<Member("y", JInt(2))>>), JStr("a")}
\* the results file process writes by default: {source}_{first field}.json
ResultsFileOf(source) ==
    IF source = "postData" THEN "postData_passedRelevance.json"
    ELSE "profileData_isAgency.json"
FieldOf(source) == IF source = "postData" THEN "passedRelevance" ELSE "isAgency"
\* what the LLM returns for a run over source: records with an index and
\* with or without the output field
LLMRecords(source) ==
    {r \in ResultRecords :
        /\ r["index"] # None
        /\ \A k \in EnrichFields \ {FieldOf(source)} : r[k] = None}
LLMBatches(source) == SeqsUpTo(LLMRecords(source), MaxResults)
\* the batches in which every record carries the output field
CompleteBatches(source) ==
    {R \in LLMBatches(source) : \A i \in 1..Len(R) : R[i][FieldOf(source)] # None}
\* the outcomes of one call of call_llm, and of the calls of a run
LLMAnswers(source) ==
    {Answer(TRUE, <<>>)} \cup {Answer(FALSE, R) : R \in LLMBatches(source)}
AnswerSeqs(source, n) == [1..n -> LLMAnswers(source)]
BatchSizes == {1, 2}
\* paths, as sequences of characters
PathX == <<"[", "*", "]", ".", "x">>
\* the where clause field = literal, as tokens
Clause(field, literal) == <<field, "=", literal>>
\* where clauses, as sequences of tokens
WhereClauses ==
    {<<k, "=", v>> : k \in EnrichFields, v \in {"true", "false"}}
\* where clauses over an index field, and clauses that do not match
IndexClauses == {<<k, "=", v>> : k \in IndexFields, v \in {"0", "1"}}
BadClauses == {<<"isAgency">>, <<"=", "true">>, <<"isAgency", " ", "true">>}
\* paths: [*].x, x, [*], [0].x, [*].x[0], and malformed ones
Paths ==
    {PathX, <<"x">>, <<"[", "*", "]">>, <<"[", "0", "]", ".", "x">>,
     <<"[", "*", "]", ".", "x", "[">>, <<"[", "x", "]">>}
\* projections: the (key, path) items of the fields dict
FieldItem(key, path) == [key |-> key, path |-> path]
FieldMaps ==
    {<<>>, <<FieldItem("a", <<"x">>)>>,
     <<FieldItem("a", <<"x">>), FieldItem("b", <<"[", "*", "]", ".", "y", "[">>)>>}
\* the rows a scraper appends, of every shape and of every length up to k
ShapedRows(k) == UNION {[1..m -> RowShapes] : m \in 1..k}
\* offset and limit
Offsets == {None, IntV(0), IntV(1)}
Limits == {None, IntV(0), IntV(1)}

Next ==
    \/ \E d \in Datasets, k \in 1..MaxRows : AppendRows(d, PlainRows(k))
    \/ \E d \in Datasets : init_mapping(d, IndexFieldOf(d))
    \/ \E f \in IndexFields : \E g \in IndexFields \ {f}, S \in SourceIndexLists :
          link_indices_func(f, S, g)
    \/ \E f \in IndexFields : \E g \in IndexFields \ {f}, S \in SourceIndexLists \ {<<>>} :
          link_indices(f, S, g)
    \/ \E f \in IndexFields, I \in IndexSets, k \in Fields, v \in UpdateValues :
          update_mapping_field(f, I, k, v)
    \/ \E f \in IndexFields, I \in IndexSets, k \in Fields, raw \in RawValues :
          update_mapping(f, I, k, raw)
    \/ \E f \in IndexFields, R \in ResultBatches, o \in OutputFiles \cup {NoFile} :
          bulk_update_mapping(f, R, o)

Spec == Init /\ [][Next]_vars

\* the runs of init and link calls alone
NextLink ==
    \/ \E d \in Datasets, k \in 1..MaxRows : AppendRows(d, PlainRows(k))
    \/ \E d \in Datasets : init_mapping(d, IndexFieldOf(d))
    \/ \E f \in IndexFields : \E g \in IndexFields \ {f}, S \in SourceIndexLists :
          link_indices_func(f, S, g)
    \/ \E f \in IndexFields : \E g \in IndexFields \ {f}, S \in SourceIndexLists \ {<<>>} :
          link_indices(f, S, g)

SpecLink == Init /\ [][NextLink]_vars

\* the runs of registrations: register_llm_output called directly and
\* through bulk_update_mapping
NextRegistry ==
    \/ \E o \in OutputFiles, F \in SUBSET FieldNames, f \in IndexFields :
          register(o, F, f)
    \/ \E f \in IndexFields, R \in ResultBatches, o \in OutputFiles :
          bulk_update_mapping(f, R, o)

SpecRegistry == Init /\ [][NextRegistry]_vars

\* the runs of extractions over datasets with rows of every shape
NextExtract ==
    \/ \E d \in Datasets : \E R \in ShapedRows(MaxRows) : AppendRows(d, R)
    \/ \E d \in Datasets : init_mapping(d, IndexFieldOf(d))
    \/ \E d \in Datasets, p \in {PathX, <<>>}, F \in FieldMaps,
          w \in {<<"profileIndex", "=", "0">>, <<"isAgency">>, <<>>} :
          extract_data(d, p, F, w, None, None)

SpecExtract == Init /\ [][NextExtract]_vars

\* the process whose commands run one after the other
Driver == 1
\* the process that reads beside it
Reader == 2

\* the items a run over source with path [*].x hands to the LLM in the state
ItemsOf(source) ==
    IF StartFails(source, PathX, <<>>, <<>>, ResultsFileOf(source)) THEN <<>>
    ELSE ItemsFor(leads, registry, outfiles, datasets[source].exists, rows[source],
                  source, PathX, <<>>, <<>>, ResultsFileOf(source))

\* the number of calls of call_llm of that run
BatchesOf(source, batch_size) == NumBatches(Len(ItemsOf(source)), batch_size)

\* the runs of a scraper and of the process command over postData, one
\* command after the other and each a step per file access
NextProcess ==
    \/ \E k \in 1..MaxRows : scraper_read(Driver, "postData", PlainRows(k))
    \/ scraper_open(Driver)
    \/ scraper_write(Driver)
    \/ \E b \in BatchSizes :
          process_extract(Driver, "postData", PathX, ResultsFileOf("postData"), b)
    \/ process_load_registry(Driver)
    \/ process_read_results(Driver)
    \/ \E a \in LLMAnswers("postData") : process_batch(Driver, a)
    \/ \E a \in LLMAnswers("postData") : process_reread(Driver, a)
    \/ process_save_open(Driver)
    \/ process_save_write(Driver)
    \/ process_bulk_load(Driver)
    \/ process_register_load(Driver)
    \/ registry_save_open(Driver)
    \/ registry_save_write(Driver)

SpecProcess == Init /\ [][NextProcess]_vars

\* the runs of the process command over the datasets, batch by batch and
\* one run after the other
NextBatches ==
    \/ \E d \in Datasets, k \in 1..MaxRows : scraper_read(Driver, d, PlainRows(k))
    \/ scraper_open(Driver)
    \/ scraper_write(Driver)
    \/ \E d \in Datasets, b \in BatchSizes :
          process_extract(Driver, d, PathX, ResultsFileOf(d), b)
    \/ process_load_registry(Driver)
    \/ process_read_results(Driver)
    \/ \E a \in LLMAnswers(inflight[Driver].op.source) : process_batch(Driver, a)
    \/ \E a \in LLMAnswers(inflight[Driver].op.source) : process_reread(Driver, a)
    \/ process_save_open(Driver)
    \/ process_save_write(Driver)
    \/ process_bulk_load(Driver)
    \/ process_register_load(Driver)
    \/ registry_save_open(Driver)
    \/ registry_save_write(Driver)

SpecBatches == Init /\ [][NextBatches]_vars

\* the stages that write dataset files: the scrapers, and the extract
\* command saving its values under a dataset name
NextStages ==
    \/ \E d \in Datasets, k \in 1..MaxRows : AppendRows(d, PlainRows(k))
    \/ \E d \in Datasets, p \in {PathX, <<"[", "*", "]">>}, o \in Offsets, l \in Limits :
          \E n \in Datasets : extract(d, p, <<>>, <<>>, o, l, n)

SpecStages == Init /\ [][NextStages]_vars

\* the runs that write and register output files, one after the other, and
\* the lookups of a reader beside them
NextLookup ==
    \/ \E k \in 1..MaxRows : scraper_read(Driver, "postData", PlainRows(k))
    \/ scraper_open(Driver)
    \/ scraper_write(Driver)
    \/ process_extract(Driver, "postData", PathX, ResultsFileOf("postData"), 1)
    \/ process_load_registry(Driver)
    \/ process_read_results(Driver)
    \/ \E a \in LLMAnswers("postData") : process_batch(Driver, a)
    \/ \E a \in LLMAnswers("postData") : process_reread(Driver, a)
    \/ process_save_open(Driver)
    \/ process_save_write(Driver)
    \/ process_bulk_load(Driver)
    \/ process_register_load(Driver)
    \/ \E o \in OutputFiles, k \in EnrichFields :
          register_load(Driver, o, {k}, IndexFieldOf("postData"))
    \/ registry_save_open(Driver)
    \/ registry_save_write(Driver)
    \/ \E k \in FieldNames, i \in RowIndices : lookup_registry(Reader, k, i)
    \/ lookup_file(Reader)

SpecLookup == Init /\ [][NextLookup]_vars

\* init, link and update calls of two processes, their loads, opens and
\* writes interleaved
NextConcurrent ==
    \/ \E k \in 1..MaxRows : scraper_read(Driver, "postData", PlainRows(k))
    \/ scraper_open(Driver)
    \/ scraper_write(Driver)
    \/ \E p \in Procs : init_read(p, "postData", "postIndex")
    \/ \E p \in Procs : load_mapping(p, inflight[p].op)
    \/ \E p \in Procs, i \in RowIndices :
          load_mapping(p, LinkOp("postIndex", <<i>>, "profileIndex"))
    \/ \E p \in Procs, i \in RowIndices :
          load_mapping(p, UpdateOp("postIndex", {i}, "passedRelevance", BoolV(TRUE)))
    \/ \E p \in Procs : save_mapping_open(p)
    \/ \E p \in Procs : save_mapping_write(p)

SpecConcurrent == Init /\ [][NextConcurrent]_vars

\* the rows of a source dataset: a row with a URL (one of them with a query
\* string) or a row without one
Urls == {"a?q", "b"}
UrlRow(u) == JObj(<<Member("x", JStr(u))>>)
NoUrlRow == JObj(<<Member("y", JInt(2))>>)
\* the item the actor returns for a query
Profile(u) == JObj(<<Member("url", JStr(u))>>)
\* what the actor can return for its queries: it failed, or for each query,
\* in order, the profile or nothing
RECURSIVE SubSeqs(_)
SubSeqs(seq) ==
    IF seq = <<>> THEN {<<>>}
    ELSE LET rest == SubSeqs(Tail(seq))
         IN rest \cup {<<Head(seq)>> \o t : t \in rest}
ActorAnswers(queries) ==
    {ActorAnswer(TRUE, <<>>)}
        \cup {ActorAnswer(FALSE, [i \in 1..Len(S) |-> Profile(S[i])]) : S \in SubSeqs(queries)}
\* the queries scrape_profiles hands to the actor in the current state
QueriesOf(source, path, limit, save_name) ==
    Queries(FilteredData(leads,
                ExtractResult(leads, registry, outfiles, datasets[source].exists,
                              rows[source], source, path, <<>>, <<>>, None, limit).data,
                IndexFieldOf(source), IndexFieldOf(save_name)))
ScrapeLimits == {IntV(1), IntV(50)}

\* a scraper fills postData, the mapping is initialised from it, and
\* scrape_profiles scrapes the profiles of its rows into profileData: the
\* commands of one driver, one after the other and each a step per file access
NextScrape ==
    \/ \E u \in Urls : scraper_read(Driver, "postData", <<UrlRow(u)>>)
    \/ scraper_read(Driver, "postData", <<NoUrlRow>>)
    \/ scraper_open(Driver)
    \/ scraper_write(Driver)
    \/ init_read(Driver, "postData", "postIndex")
    \/ load_mapping(Driver, inflight[Driver].op)
    \/ \E l \in ScrapeLimits :
          scrape_extract(Driver, "postData", PathX, l, "profileData")
    \/ scrape_load(Driver)
    \/ \E a \in ActorAnswers(inflight[Driver].op.queries) : scrape_reread(Driver, a)
    \/ scrape_save_open(Driver)
    \/ scrape_save_write(Driver)
    \/ scrape_link_load(Driver)
    \/ save_mapping_open(Driver)
    \/ save_mapping_write(Driver)

SpecScrape == Init /\ [][NextScrape]_vars

\* The runs that build a mapping, attach a field to leads, write the
\* registered output file of the profile stage, and query: the commands of
\* one driver, one after the other and each a step per file access.
NextQuery ==
    \/ \E d \in Datasets, k \in 1..MaxRows : scraper_read(Driver, d, PlainRows(k))
    \/ scraper_open(Driver)
    \/ scraper_write(Driver)
    \/ \E d \in Datasets : init_read(Driver, d, IndexFieldOf(d))
    \/ load_mapping(Driver, inflight[Driver].op)
    \/ \E i \in RowIndices :
          load_mapping(Driver, LinkOp("postIndex", <<i>>, "profileIndex"))
    \/ \E k \in EnrichFields :
          load_mapping(Driver, UpdateOp("profileIndex", {0}, k, BoolV(TRUE)))
    \/ save_mapping_open(Driver)
    \/ save_mapping_write(Driver)
    \/ process_extract(Driver, "profileData", PathX, ResultsFileOf("profileData"),
                       MaxRows)
    \/ process_load_registry(Driver)
    \/ process_read_results(Driver)
    \/ \E R \in CompleteBatches("profileData") :
          process_reread(Driver, Answer(FALSE, R))
    \/ process_save_open(Driver)
    \/ process_save_write(Driver)
    \/ process_bulk_load(Driver)
    \/ process_register_load(Driver)
    \/ registry_save_open(Driver)
    \/ registry_save_write(Driver)
    \/ \E d \in Datasets, w \in {Clause("isAgency", "true"), <<>>} :
          extract_read(Driver, d, PathX, w)
    \/ extract_load_mapping(Driver)
    \/ extract_load_registry(Driver)
    \/ extract_read_file(Driver)

SpecQuery == Init /\ [][NextQuery]_vars

(***************************************************************************)
(* Properties.  A property of an operation is stated for every call of it  *)
(* on the mapping of the state: LinkResult, InitResult, UpdateResult and   *)
(* BulkResult are what the call saves and returns.                         *)
(***************************************************************************)
\* the numbers the leads of ls carry under index field g
NumbersUnder(ls, g) == {ls[p][g].n : p \in {q \in 1..Len(ls) : IsNum(ls[q][g])}}

\* the lead a link call on ls finds for source index i, in the mapping new
LeadOf(new, ls, f, i) == new[FirstLead(ls, f, i)]

\* the target index the call r = link(f, S, g) on ls gave its k-th linked index
AssignedTo(r, ls, f, g, k) == LeadOf(r.leads, ls, f, r.linked[k])[g]

\* every index of S has a lead under f
AllHaveLead(ls, f, S) == \A k \in 1..Len(S) : Matching(ls, f, S[k]) # {}

\* C1, in every state: under each index field no two leads carry the same
\* value, and a link call gives each index it links a target index above
\* every target index already in the mapping and above the one it gave before.
C1_Unique ==
    /\ \A g \in IndexFields : \A p, q \in 1..Len(leads) :
          (p # q /\ leads[p][g] # None) => leads[p][g] # leads[q][g]
    /\ \A f \in IndexFields, g \in IndexFields, S \in SourceIndexLists,
          raise_on_missing \in BOOLEAN :
          \A r \in {LinkResult(leads, f, S, g, raise_on_missing)} :
             \A k \in 1..Len(r.linked) :
                /\ AssignedTo(r, leads, f, g, k).t = "int"
                /\ \A n \in NumbersUnder(leads, g) : AssignedTo(r, leads, f, g, k).n > n
                /\ k > 1 => AssignedTo(r, leads, f, g, k).n
                               > AssignedTo(r, leads, f, g, k - 1).n

\* C1, in every step: an index a lead carries stays what it is, so the target
\* indices of earlier calls are in the mapping when a later call allocates.
C1_Kept ==
    \A p \in 1..Len(leads) : \A g \in IndexFields :
        leads[p][g] # None => (p <= Len(leads') /\ leads'[p][g] = leads[p][g])

\* C1: in runs of init and link calls the target indices link assigns under a
\* target index field are pairwise distinct across all leads and strictly
\* increasing in the order of assignment, within a call and across calls.
C1_TargetsUniqueIncreasing == [](C1_Unique) /\ [][C1_Kept]_vars

\* C1 witness: link, given the source indices in the order 1, 0, has given the
\* two leads the target indices 0 and 1 in that order.
C1_Witness ==
    /\ Len(leads) >= 2
    /\ leads[1]["postIndex"] = IntV(0) /\ leads[2]["postIndex"] = IntV(1)
    /\ leads[2]["profileIndex"] = IntV(0) /\ leads[1]["profileIndex"] = IntV(1)

\* a call that returned an output (it did not raise on a non-integer index)
Returned(r) == r.status # "raised"

\* C2: when every index of S has a lead under f, a second link(f, S, g) right
\* after a first one returns linked = [] and skipped = S and leaves the
\* mapping as the first call saved it.
C2_IdempotentLinking ==
    \A f \in IndexFields, g \in IndexFields, S \in SourceIndexLists,
       raise_on_missing \in BOOLEAN :
       \A r1 \in {LinkResult(leads, f, S, g, raise_on_missing)} :
          (AllHaveLead(leads, f, S) /\ Returned(r1)) =>
             \A r2 \in {LinkResult(r1.leads, f, S, g, raise_on_missing)} :
                /\ r2.status = "success"
                /\ r2.linked = <<>>
                /\ r2.skipped = S
                /\ r2.leads = r1.leads

\* C2 witness: both leads of postIndex 0 and 1 have been linked, so that
\* link(postIndex, [0,1], profileIndex) now skips both.
C2_Witness ==
    /\ out.status = "success"
    /\ AllHaveLead(leads, "postIndex", <<0, 1>>)
    /\ \E r \in {LinkResult(leads, "postIndex", <<0, 1>>, "profileIndex", FALSE)} :
          r.skipped = <<0, 1>> /\ r.linked = <<>>
    /\ \E p \in 1..Len(leads) : leads[p]["profileIndex"] = IntV(1)

\* the maximum of a non-empty set of numbers
MaxOf(N) == CHOOSE n \in N : \A m \in N : m <= n

\* (maximum of g over all leads) + 1, or 0 when no lead has g
AllocatorStart(ls, g) ==
    IF NumbersUnder(ls, g) = {} THEN 0 ELSE MaxOf(NumbersUnder(ls, g)) + 1

\* C3: the first target index a link call assigns, which it returns as
\* target_start, is (maximum of target_index_field over all leads) + 1, or 0
\* when no lead has that field.
C3_AllocatorStart ==
    \A f \in IndexFields, g \in IndexFields, S \in SourceIndexLists,
       raise_on_missing \in BOOLEAN :
       \A r \in {LinkResult(leads, f, S, g, raise_on_missing)} :
          (Returned(r) /\ r.linked # <<>>) =>
             /\ AssignedTo(r, leads, f, g, 1) = IntV(AllocatorStart(leads, g))
             /\ r.status = "success" => r.target_start = IntV(AllocatorStart(leads, g))

\* C3 witness: earlier calls have assigned target indices (the largest is 1),
\* and one more lead is still unlinked: a link call on it starts at 2.
C3_Witness ==
    /\ out.status = "success"
    /\ NumbersUnder(leads, "postIndex") = {0, 1}
    /\ \E r \in {LinkResult(leads, "profileIndex", <<0>>, "postIndex", FALSE)} :
          r.linked = <<0>> /\ r.target_start = IntV(2)

\* S without its k-th entry
RemoveAt(S, k) == [i \in 1..(Len(S) - 1) |-> IF i < k THEN S[i] ELSE S[i + 1]]

\* how often i occurs in the list S
Occurrences(S, i) == Cardinality({k \in 1..Len(S) : S[k] = i})

\* C4: a source index whose lead already has a value under target_index_field
\* (0 included) is recorded in skipped, its lead keeps its target index, and
\* the call links the other indices as if the index were not in the list.
C4_SkipAlreadyLinked ==
    \A f \in IndexFields, g \in IndexFields, S \in SourceIndexLists :
       \A r \in {LinkResult(leads, f, S, g, FALSE)} :
          \A k \in 1..Len(S) :
             (/\ Returned(r)
              /\ Matching(leads, f, S[k]) # {}
              /\ LeadOf(leads, leads, f, S[k])[g] # None) =>
                \A r0 \in {LinkResult(leads, f, RemoveAt(S, k), g, FALSE)} :
                   /\ Occurrences(r.skipped, S[k]) = Occurrences(S, S[k])
                   /\ LeadOf(r.leads, leads, f, S[k])[g] = LeadOf(leads, leads, f, S[k])[g]
                   /\ r.linked = r0.linked
                   /\ r.leads = r0.leads
                   /\ r.target_start = r0.target_start

\* C4 witness: the lead of postIndex 0 carries target index 0 and the lead of
\* postIndex 1 none: link(postIndex, [0,1], profileIndex) skips 0 and links 1.
C4_Witness ==
    /\ out.status = "success"
    /\ Len(leads) >= 2
    /\ leads[1]["postIndex"] = IntV(0) /\ leads[1]["profileIndex"] = IntV(0)
    /\ leads[2]["postIndex"] = IntV(1) /\ leads[2]["profileIndex"] = None
    /\ \E r \in {LinkResult(leads, "postIndex", <<0, 1>>, "profileIndex", FALSE)} :
          r.skipped = <<0>> /\ r.linked = <<1>> /\ r.target_start = IntV(1)

\* the entries of S a link call on ls links, in the order of S: those met
\* for the first time whose lead exists and has no target index yet
RECURSIVE Linkable(_, _, _, _, _)
Linkable(ls, f, g, S, k) ==
    IF k > Len(S) THEN <<>>
    ELSE IF /\ Matching(ls, f, S[k]) # {}
            /\ LeadOf(ls, ls, f, S[k])[g] = None
            /\ \A j \in 1..(k - 1) : S[j] # S[k]
         THEN <<S[k]>> \o Linkable(ls, f, g, S, k + 1)
         ELSE Linkable(ls, f, g, S, k + 1)

\* C5: link processes source_indices in the given order: linked lists, in the
\* order of the list, the indices that had a lead without target index, and
\* its k-th entry (from 0) receives target index target_start + k.
C5_LinkedInOrder ==
    \A f \in IndexFields, g \in IndexFields, S \in SourceIndexLists :
       \A r \in {LinkResult(leads, f, S, g, FALSE)} :
          Returned(r) =>
             /\ r.status = "success"
             /\ r.linked = Linkable(leads, f, g, S, 1)
             /\ r.linked # <<>> => r.target_start.t = "int"
             /\ \A k \in 1..Len(r.linked) :
                   AssignedTo(r, leads, f, g, k) = IntV(r.target_start.n + (k - 1))

\* C5 witness: link(postIndex, [0,1], profileIndex) on two unlinked leads has
\* given postIndex 0 the target index 0 and postIndex 1 the target index 1.
C5_Witness ==
    /\ out.status = "success"
    /\ Len(leads) >= 2
    /\ leads[1]["postIndex"] = IntV(0) /\ leads[1]["profileIndex"] = IntV(0)
    /\ leads[2]["postIndex"] = IntV(1) /\ leads[2]["profileIndex"] = IntV(1)

\* some lead of ls carries position p under index field f (by Python's ==)
Carried(ls, f, p) == \E q \in 1..Len(ls) : PyEq(ls[q][f], IntV(p))

\* the positions of a dataset of N rows that no lead of ls carries under f
NotCarried(ls, N, f) == {p \in 0..(N - 1) : ~Carried(ls, f, p)}

\* the numbers of P in ascending order
RECURSIVE Ascending(_)
Ascending(P) ==
    IF P = {} THEN <<>>
    ELSE <<CHOOSE m \in P : \A n \in P : m <= n>>
         \o Ascending(P \ {CHOOSE m \in P : \A n \in P : m <= n})

\* the lead record {f: p}
OnlyIndex(f, p) == [k \in Fields |-> IF k = f THEN IntV(p) ELSE None]

\* the leads of ls, then one lead {f: p} per p of the list P
Extended(ls, f, P) == ls \o [i \in 1..Len(P) |-> OnlyIndex(f, P[i])]

\* C6: init on a dataset of N rows appends, in ascending order, one lead
\* {index_field: p} for exactly the positions p in 0..N-1 that no lead carries
\* under index_field, reports created, skipped = N - created and total_leads,
\* and afterwards every position 0..N-1 is carried by some lead.
C6_InitCreatesMissing ==
    \A N \in 0..MaxRows, f \in IndexFields :
       \A r \in {InitResult(leads, N, f)} :
          /\ r.status = "success"
          /\ r.leads = Extended(leads, f, Ascending(NotCarried(leads, N, f)))
          /\ r.created = Cardinality(NotCarried(leads, N, f))
          /\ r.skipped = N - r.created
          /\ r.total_leads = Len(leads) + r.created
          /\ \A p \in 0..(N - 1) : Carried(r.leads, f, p)

\* C6 witness: init of profileData (2 rows) has appended the one lead
\* {profileIndex: 1}, position 0 being carried by a lead link had given it to.
C6_Witness ==
    /\ out.status = "success"
    /\ Len(leads) = 3
    /\ datasets["profileData"].count = 2
    /\ leads[1]["postIndex"] = IntV(0) /\ leads[1]["profileIndex"] = IntV(0)
    /\ leads[3] = OnlyIndex("profileIndex", 1)

\* the index field init is run with for a dataset, and its row count
ExistingDatasets == {d \in Datasets : datasets[d].exists}

\* C7 as claimed, on the mappings that init and link calls alone have
\* written: a second init creates 0 leads (skipped = N) and leaves the leads
\* unchanged; after the dataset grew by M rows init creates exactly M.
C7_AsClaimed ==
    \A d \in ExistingDatasets, M \in 1..MaxRows :
       nupdates = 0 =>
       \A r1 \in {InitResult(leads, datasets[d].count, IndexFieldOf(d))} :
          /\ \A r2 \in {InitResult(r1.leads, datasets[d].count, IndexFieldOf(d))} :
                r2.created = 0 /\ r2.skipped = datasets[d].count /\ r2.leads = r1.leads
          /\ \A r3 \in {InitResult(r1.leads, datasets[d].count + M, IndexFieldOf(d))} :
                r3.created = M

\* the appended positions N..N+M-1 that no lead of ls carries under f
NewNotCarried(ls, N, M, f) == {p \in N..(N + M - 1) : ~Carried(ls, f, p)}

\* C7 (amended): a second init with the same dataset and index_field creates
\* 0 leads (skipped = N) and leaves every lead record unchanged, as the first
\* left the records before it; after the dataset grew by M rows init creates
\* one lead for each appended position that no lead carries under
\* index_field: M leads when no appended position is carried, fewer otherwise.
C7_IdempotentExtension ==
    \A N \in 0..MaxRows, M \in 1..MaxRows, f \in IndexFields :
       \A r1 \in {InitResult(leads, N, f)} :
          /\ SubSeq(r1.leads, 1, Len(leads)) = leads
          /\ \A r2 \in {InitResult(r1.leads, N, f)} :
                r2.created = 0 /\ r2.skipped = N /\ r2.leads = r1.leads
          /\ \A r3 \in {InitResult(r1.leads, N + M, f)} :
                /\ r3.created = Cardinality(NewNotCarried(leads, N, M, f))
                /\ r3.leads = Extended(r1.leads, f, Ascending(NewNotCarried(leads, N, M, f)))
                /\ NewNotCarried(leads, N, M, f) = N..(N + M - 1) => r3.created = M

\* C7 witness: init has run on postData and profileData, a lead carries
\* fields added by link and by update_field, and a further init of either
\* dataset creates nothing.
C7_Witness ==
    /\ out.status = "success"
    /\ ExistingDatasets = Datasets
    /\ \A d \in Datasets :
          InitResult(leads, datasets[d].count, IndexFieldOf(d)).created = 0
    /\ \E p \in 1..Len(leads) :
          /\ leads[p]["postIndex"] # None /\ leads[p]["profileIndex"] # None
          /\ leads[p]["passedRelevance"] # None

\* C8: in every step the leads sequence keeps its leads at their positions:
\* it never gets shorter, no lead loses a key, init and link calls leave
\* every value a lead carries as it is, and update and bulk calls add no lead.
C8_Step ==
    /\ Len(leads') >= Len(leads)
    /\ \A p \in 1..Len(leads) : \A k \in Fields :
          leads[p][k] # None => leads'[p][k] # None
    /\ nupdates' = nupdates =>
          \A p \in 1..Len(leads) : \A k \in Fields :
             leads[p][k] # None => leads'[p][k] = leads[p][k]
    /\ nupdates' # nupdates => Len(leads') = Len(leads)

\* C8: across any sequence of init, link, update_field and bulk_register
\* calls the leads sequence only grows by appending: no lead record is
\* removed, and the lead at position i stays at position i.
C8_AppendOnly == [][C8_Step]_vars

\* C8 witness: two init calls, a link call and an update call have run; the
\* first lead is still the lead of postIndex 0, now with two more fields.
C8_Witness ==
    /\ Len(leads) = 3 /\ nupdates = 1
    /\ leads[1]["postIndex"] = IntV(0)
    /\ leads[1]["profileIndex"] # None /\ leads[1]["passedRelevance"] # None
    /\ leads[3]["postIndex"] = None

\* the values update_field is given: the callable's, and the command's coerced
AllUpdateValues == UpdateValues \cup {ParseValue(raw) : raw \in RawValues}

\* the positions of the leads whose index_field value is in indices
MatchedBy(ls, f, I) == {p \in 1..Len(ls) : \E i \in I : PyEq(ls[p][f], IntV(i))}

\* C9: update_field sets field = value on exactly the leads whose index_field
\* value is in indices, returns their number, and leaves every other lead
\* and every other field of the matched leads unchanged.
C9_UpdateField ==
    \A f \in IndexFields, I \in IndexSets, k \in Fields, v \in AllUpdateValues :
       \A r \in {UpdateResult(leads, f, I, k, v)} :
          /\ r.status = "success"
          /\ Len(r.leads) = Len(leads)
          /\ r.updated = Cardinality(MatchedBy(leads, f, I))
          /\ \A p \in 1..Len(leads) :
                IF p \in MatchedBy(leads, f, I)
                THEN /\ r.leads[p][k] = v
                     /\ \A k2 \in Fields \ {k} : r.leads[p][k2] = leads[p][k2]
                ELSE r.leads[p] = leads[p]

\* C9 witness: update_field(profileIndex, [0], passedRelevance, true) has set
\* the field on the third lead, which carries profileIndex 0, and not on the
\* lead at position 0.
C9_Witness ==
    /\ nupdates = 1 /\ out.status = "success"
    /\ Len(leads) = 3
    /\ leads[3]["profileIndex"] = IntV(0)
    /\ leads[3]["passedRelevance"] = BoolV(TRUE)
    /\ leads[1]["postIndex"] = IntV(0) /\ leads[1]["passedRelevance"] = None

\* the non-index field names found in results
NonIndexNames(R) == {k \in EnrichFields : \E i \in 1..Len(R) : R[i][k] # None}

\* C10: bulk_register with an output_file registers the file in the registry,
\* with the non-index field names found in the results and the index_field,
\* and leaves the lead records unchanged.
C10_RegisterKeepsLeads ==
    \A f \in IndexFields, R \in ResultBatches, o \in OutputFiles :
       \A r \in {BulkResult(leads, registry, f, R, o)} :
          /\ r.status = "success"
          /\ r.leads = leads
          /\ r.registry.files[o] =
                [registered |-> TRUE, fields |-> NonIndexNames(R), index_field |-> f]
          /\ \A k \in NonIndexNames(R) : r.registry.fields[k] = o

\* C10 witness: an output file has been registered with a field over
\* postIndex while the mapping holds linked leads.
C10_Witness ==
    /\ nupdates = 1 /\ out.status = "success"
    /\ \E o \in OutputFiles :
          /\ registry.files[o].registered
          /\ registry.files[o].fields = {"passedRelevance"}
          /\ registry.files[o].index_field = "postIndex"
          /\ registry.fields["passedRelevance"] = o
    /\ \E p \in 1..Len(leads) :
          leads[p]["postIndex"] # None /\ leads[p]["profileIndex"] # None

\* the lead a result is copied onto: the last lead whose index_field value
\* equals the result's index, 0 when there is none
TargetOf(ls, f, result) ==
    IF result["index"] = None \/ ~\E p \in 1..Len(ls) : PyEq(ls[p][f], result["index"])
    THEN 0
    ELSE CHOOSE p \in 1..Len(ls) :
            /\ PyEq(ls[p][f], result["index"])
            /\ \A q \in (p + 1)..Len(ls) : ~PyEq(ls[q][f], result["index"])

\* the results that write field k of lead p
WritersOf(ls, f, R, p, k) ==
    {i \in 1..Len(R) : TargetOf(ls, f, R[i]) = p /\ R[i][k] # None}

\* C11: bulk_register without an output_file copies every non-index field of
\* each result onto the lead whose index_field value equals the result's
\* index (the last such lead when several carry the value; the later result
\* when two results write the same field), changes no other lead and no other
\* field, leaves the registry unchanged and returns the number of results
\* that matched a lead.
C11_LegacyCopy ==
    \A f \in IndexFields, R \in ResultBatches :
       \A r \in {BulkResult(leads, registry, f, R, NoFile)} :
          /\ r.status = "success"
          /\ r.registry = registry
          /\ Len(r.leads) = Len(leads)
          /\ r.updated = Cardinality({i \in 1..Len(R) : TargetOf(leads, f, R[i]) # 0})
          /\ \A p \in 1..Len(leads) :
                /\ \A k \in IndexFields : r.leads[p][k] = leads[p][k]
                /\ \A k \in EnrichFields :
                      IF WritersOf(leads, f, R, p, k) = {}
                      THEN r.leads[p][k] = leads[p][k]
                      ELSE r.leads[p][k] =
                              R[CHOOSE i \in WritersOf(leads, f, R, p, k) :
                                   \A j \in WritersOf(leads, f, R, p, k) : j <= i][k]

\* C11 witness: a legacy bulk call over profileIndex has copied
\* passedRelevance = false onto the third lead, which carries profileIndex 0,
\* and not onto the lead at position 0; the registry is still empty.
C11_Witness ==
    /\ nupdates = 1 /\ out.status = "success"
    /\ registry = EmptyRegistry
    /\ Len(leads) = 3
    /\ leads[3]["profileIndex"] = IntV(0)
    /\ leads[3]["passedRelevance"] = BoolV(FALSE)
    /\ leads[1]["postIndex"] = IntV(0) /\ leads[1]["passedRelevance"] = None

\* C12, in a state: a registration of output_file replaces the entry of the
\* file, points every listed field except 'index' at the file and leaves the
\* other entries as they are; 'index' resolves to no file.
C12_Register ==
    /\ registry.fields["index"] = NoFile
    /\ \A o \in OutputFiles, F \in SUBSET FieldNames, f \in IndexFields :
          \A r \in {register_llm_output(registry, o, F, f)} :
             /\ r.files[o] = [registered |-> TRUE, fields |-> F, index_field |-> f]
             /\ \A o2 \in OutputFiles \ {o} : r.files[o2] = registry.files[o2]
             /\ \A k \in F \ {"index"} : r.fields[k] = o
             /\ \A k \in FieldNames \ (F \ {"index"}) : r.fields[k] = registry.fields[k]

\* C12, in a step: a field changes the file it resolves to only to a file
\* whose registration lists it, and a registration that lists a field makes
\* the field resolve to its file.
C12_LastWins ==
    \A k \in FieldNames \ {"index"} :
       /\ registry'.fields[k] # registry.fields[k] =>
             /\ registry'.fields[k] \in OutputFiles
             /\ registry'.files[registry'.fields[k]].registered
             /\ k \in registry'.files[registry'.fields[k]].fields
       /\ \A o \in OutputFiles :
             registry'.files[o] # registry.files[o] /\ k \in registry'.files[o].fields
                => registry'.fields[k] = o

\* C12: register(output_file, fields, index_field) replaces any prior entry
\* of output_file and points the reverse map of every listed field except
\* 'index' at output_file; after any sequence of registrations each field
\* resolves to the file of the most recent registration that listed it, and
\* 'index' never resolves.
C12_RegisterLastWins == [](C12_Register) /\ [][C12_LastWins]_vars

\* C12 witness: both files have been registered with passedRelevance, the
\* second one later: the field resolves to it; a file lists 'index', which
\* resolves to nothing.
C12_Witness ==
    /\ \A o \in OutputFiles :
          registry.files[o].registered /\ "passedRelevance" \in registry.files[o].fields
    /\ registry.fields["passedRelevance"] = "profileData_isAgency.json"
    /\ \E o \in OutputFiles : "index" \in registry.files[o].fields
    /\ registry.fields["index"] = NoFile

\* the non-index fields a record of a results file carries
CarriedFields(records) ==
    {k \in EnrichFields : \E i \in 1..Len(records) : records[i][k] # None}

\* no process is in the middle of a command, and every file holds the JSON
\* of what the state holds for it
AtRest ==
    /\ \A p \in Procs : inflight[p].pc = "idle"
    /\ mapfile = Readable
    /\ \A f \in TextFiles : filetext[f] = Readable

\* C13 as claimed: after any sequence of process runs that append to an
\* output file and re-register it, the registry's field list of the file
\* contains every non-index field carried by a record of the file.
C13_FieldListComplete ==
    \A o \in OutputFiles :
       AtRest /\ outfiles[o].exists /\ registry.files[o].registered
          => CarriedFields(outfiles[o].records) \subseteq registry.files[o].fields

\* C13 witness: two runs have appended a record each to a registered file,
\* and here the field list is complete.
C13_Witness ==
    \E o \in OutputFiles :
       /\ AtRest
       /\ outfiles[o].exists /\ registry.files[o].registered
       /\ Len(outfiles[o].records) = 2
       /\ CarriedFields(outfiles[o].records) # {}
       /\ CarriedFields(outfiles[o].records) = registry.files[o].fields

\* extract_data on the state, without offset and limit
Extract(source, path, fields, where) ==
    Extracted(source, path, fields, where, None, None)

\* the leads with field k set to v on every lead
Attached(ls, k, v) == [p \in 1..Len(ls) |-> [ls[p] EXCEPT ![k] = v]]

\* C14: once a field is registered to an output file, extract with a where
\* filter on the field selects rows from the records of the registered file
\* only: every selected row index is the index of a record of the file whose
\* field equals the literal, and the result is the same whatever value the
\* leads carry as an attached property of that name.
C14_RegistryPrecedence ==
    \A d \in Datasets, k \in EnrichFields, lit \in {"true", "false"} :
       registry.fields[k] # NoFile =>
          \A r \in {Extract(d, PathX, <<>>, Clause(k, lit))} :
             /\ \A i \in 1..Len(r.data) :
                   InValues(r.data[i].index,
                            MatchingIndices(outfiles[registry.fields[k]].records,
                                            k, WhereValue(lit)))
             /\ \A v \in {None, BoolV(TRUE), BoolV(FALSE)} :
                   r = ExtractedOn(Attached(leads, k, v), d, PathX, <<>>,
                                   Clause(k, lit), None, None)

\* C14 witness: isAgency is registered to the file of the profile stage, whose
\* record for profile 0 says false, while the lead of profile 0 carries an
\* attached isAgency = true: the filter isAgency=false selects row 0 and the
\* filter isAgency=true selects nothing.
C14_Witness ==
    /\ registry.fields["isAgency"] = "profileData_isAgency.json"
    /\ \E i \in 1..Len(outfiles["profileData_isAgency.json"].records) :
          /\ outfiles["profileData_isAgency.json"].records[i]["index"] = IntV(0)
          /\ outfiles["profileData_isAgency.json"].records[i]["isAgency"] = BoolV(FALSE)
    /\ \E p \in 1..Len(leads) :
          leads[p]["profileIndex"] = IntV(0) /\ leads[p]["isAgency"] = BoolV(TRUE)
    /\ Extract("profileData", PathX, <<>>, Clause("isAgency", "true")).data = <<>>
    /\ Len(Extract("profileData", PathX, <<>>, Clause("isAgency", "false")).data) = 1

\* the row positions an extraction returned
SelectedRows(r) == {r.data[i].index : i \in 1..Len(r.data)}

\* the valid row positions of dataset d carried under its index field by the
\* leads that pass Test
RowsOfLeads(d, Test(_)) ==
    {IntV(n) : n \in {m \in 0..(Len(rows[d]) - 1) :
        \E p \in 1..Len(leads) :
           Test(leads[p]) /\ PyEq(leads[p][IndexFieldOf(d)], IntV(m))}}

\* C15 as claimed: when the where field is registered to an output file whose
\* index_field differs from the extraction's own index field, extract selects
\* the dataset rows of the leads whose value under the file's index_field is
\* the index of a record of the file with the field equal to the literal, at
\* the position those leads carry under the extraction's own index field.
C15_CrossDomainFilter ==
    \A d \in Datasets, k \in EnrichFields, lit \in {"true", "false"} :
       (/\ AtRest
        /\ datasets[d].exists
        /\ registry.fields[k] # NoFile
        /\ registry.files[registry.fields[k]].index_field # IndexFieldOf(d))
       => LET o == registry.fields[k]
              InFile(lead) ==
                 InValues(lead[registry.files[o].index_field],
                          MatchingIndices(outfiles[o].records, k, WhereValue(lit)))
          IN /\ Extract(d, PathX, <<>>, Clause(k, lit)).status = "success"
             /\ SelectedRows(Extract(d, PathX, <<>>, Clause(k, lit)))
                   = RowsOfLeads(d, InFile)

\* C15 scenario: isAgency is registered over profileIndex with a record for
\* profile 0, and the lead of profile 0 carries postIndex 1.
C15_Witness ==
    /\ registry.fields["isAgency"] = "profileData_isAgency.json"
    /\ registry.files["profileData_isAgency.json"].index_field = "profileIndex"
    /\ \E i \in 1..Len(outfiles["profileData_isAgency.json"].records) :
          outfiles["profileData_isAgency.json"].records[i]["index"] = IntV(0)
    /\ datasets["postData"].count = 2
    /\ \E p \in 1..Len(leads) :
          leads[p]["profileIndex"] = IntV(0) /\ leads[p]["postIndex"] = IntV(1)

\* C16 as claimed: when the where field is not in the registry, extract with
\* where field=value succeeds and returns exactly the dataset rows whose
\* position is the extraction's index-field value of some lead with
\* lead[field] equal to the literal; a lead that carries the field but lacks
\* the extraction's index field contributes no row and does not make the
\* extraction fail.
C16_LegacyFilter ==
    \A d \in Datasets, k \in EnrichFields, lit \in {"true", "false"} :
       (AtRest /\ datasets[d].exists /\ registry.fields[k] = NoFile)
       => LET Has(lead) == PyEq(lead[k], WhereValue(lit))
          IN /\ Extract(d, PathX, <<>>, Clause(k, lit)).status = "success"
             /\ SelectedRows(Extract(d, PathX, <<>>, Clause(k, lit)))
                   = RowsOfLeads(d, Has)

\* C16 scenario: a lead carries the unregistered field passedRelevance = true
\* and no postIndex, and postData exists.
C16_Witness ==
    /\ registry.fields["passedRelevance"] = NoFile
    /\ datasets["postData"].exists
    /\ \E p \in 1..Len(leads) :
          leads[p]["passedRelevance"] = BoolV(TRUE) /\ leads[p]["postIndex"] = None

\* C18 as claimed: the entries extract returns, with or without a where
\* filter, are in strictly ascending order of dataset row index, for every
\* mapping reachable by init and link calls.
C18_AscendingEntries ==
    AtRest /\ nupdates = 0 =>
       \A d \in Datasets, w \in WhereClauses \cup {<<>>} :
          \A r \in {Extract(d, PathX, <<>>, w)} :
             r.status = "success" =>
                \A i \in 1..Len(r.data), j \in 1..Len(r.data) :
                   i < j => r.data[i].index.n < r.data[j].index.n

\* C18 scenario: link has joined the rows in descending order, so that the
\* first lead carries profileIndex 1 and the second profileIndex 0, and the
\* registered file has a record for both.
C18_Witness ==
    /\ nupdates = 0
    /\ Len(leads) >= 2
    /\ leads[1]["profileIndex"] = IntV(1) /\ leads[2]["profileIndex"] = IntV(0)
    /\ registry.fields["isAgency"] = "profileData_isAgency.json"
    /\ Len(outfiles["profileData_isAgency.json"].records) = 2
    /\ datasets["profileData"].count = 2

\* seq[o : o + l], for an offset and a limit that are None or not negative
Slice(seq, offset, limit) ==
    LET from == IF offset = None THEN 0 ELSE offset.n
        rest == SubSeq(seq, from + 1, Len(seq))
    IN IF limit = None THEN rest ELSE SubSeq(rest, 1, Min2(limit.n, Len(rest)))

\* C19 as claimed: the entries returned with offset o and limit l are entries
\* [o : o+l] of what the same call returns without offset and limit, and
\* count <= l whenever a limit is given, limit 0 included.
C19_SliceAfterFilter ==
    \A d \in Datasets, w \in WhereClauses \cup {<<>>}, o \in Offsets, l \in Limits :
       \A base \in {Extract(d, PathX, <<>>, w)} :
          \A r \in {Extracted(d, PathX, <<>>, w, o, l)} :
             /\ r.status = base.status
             /\ r.data = Slice(base.data, o, l)
             /\ l # None => r.count <= l.n

\* C19 scenario: a dataset of two rows has been extracted.
C19_Witness ==
    /\ out.status = "success"
    /\ datasets["postData"].count = 2
    /\ Extract("postData", PathX, <<>>, <<>>).count = 2

\* the value of [*].x on one row: the member x of an object, else None
ValueOfX(row) == IF row.t = "obj" THEN ObjGet(row, "x") ELSE JNull

\* C17: for a dataset of length N, single-path extraction over [*].x with no
\* where, offset or limit returns status success with exactly N entries whose
\* index values are 0..N-1 in order, whatever the shape of each row; a row
\* that is not an object or has no x gives the value null.
C17_AllIndexing ==
    \A d \in Datasets :
       datasets[d].exists =>
          \A r \in {Extract(d, PathX, <<>>, <<>>)} :
             /\ r.status = "success"
             /\ r.count = Len(rows[d]) /\ Len(r.data) = Len(rows[d])
             /\ \A i \in 1..Len(r.data) :
                   /\ r.data[i].index = IntV(i - 1)
                   /\ r.data[i].value = ValueOfX(rows[d][i])

\* C17 witness: postData holds a row that is no object and a row with x,
\* and an extraction has succeeded.
C17_Witness ==
    /\ out.status = "success"
    /\ rows["postData"] = <<JStr("a"), PlainRow>>
    /\ Extract("postData", PathX, <<>>, <<>>).data[1].value = JNull
    /\ Extract("postData", PathX, <<>>, <<>>).data[2].value = JInt(1)

\* C20: extract never raises past its boundary: for every input (missing
\* dataset, invalid where clause, malformed path, neither path nor fields,
\* leads without the index field) it returns either status success with data
\* and count = number of data entries, or status error with an error
\* message, empty data and count 0.
C20_ExtractNeverRaises ==
    \A d \in Datasets, p \in Paths \cup {<<>>}, F \in FieldMaps,
       w \in IndexClauses \cup BadClauses \cup {<<>>}, o \in {None, IntV(1)} :
       \A r \in {ExtractResult(leads, registry, outfiles, datasets[d].exists,
                               rows[d], d, p, F, w, o, None)} :
          \/ r.status = "success" /\ r.count = Len(r.data) /\ r.error = ""
          \/ r.status = "error" /\ r.error # "" /\ r.data = <<>> /\ r.count = 0

\* C20 witness: a filter over a lead without the dataset's index field makes
\* the loop raise TypeError, a malformed path and a clause without '=' raise
\* ValueError, and an extraction has returned status error.
C20_Witness ==
    /\ out.status = "error"
    /\ datasets["postData"].exists /\ datasets["profileData"].exists
    /\ Extract("profileData", PathX, <<>>, Clause("postIndex", "0")).error = "TypeError"
    /\ Extract("postData", <<"[", "x", "]">>, <<>>, <<>>).error = "ValueError"
    /\ Extract("postData", PathX, <<>>, <<"isAgency">>).error = "ValueError"
    /\ \E p \in 1..Len(leads) :
          leads[p]["postIndex"] = IntV(0) /\ leads[p]["profileIndex"] = None

\* C21: extract requires exactly one of a single path and a set of named
\* projections: a call supplying neither and a call supplying both each
\* return status error and extract no data.
C21_ExactlyOneOfPathAndFields ==
    \A d \in Datasets, p \in Paths \cup {<<>>}, F \in FieldMaps :
       (p = <<>>) = (F = <<>>) =>
          \A r \in {Extract(d, p, F, <<>>)} :
             r.status = "error" /\ r.data = <<>> /\ r.count = 0

\* C21 witness: on a dataset with rows, the call with neither is an error and
\* the call with both a path and projections returns the rows' projections.
C21_Witness ==
    /\ datasets["postData"].exists /\ Len(rows["postData"]) > 0
    /\ Extract("postData", <<>>, <<>>, <<>>).status = "error"
    /\ Extract("postData", PathX, <<FieldItem("a", <<"x">>)>>, <<>>).status = "success"
    /\ Len(Extract("postData", PathX, <<FieldItem("a", <<"x">>)>>, <<>>).data)
          = Len(rows["postData"])

\* the dataset of d as the array the navigator is given
DatasetArray(d) == JArr(rows[d])

\* the paths of an 'all' segment followed by a member access and a fixed index
AllPaths ==
    {PathX, <<"[", "*", "]", ".", "x", "[", "0", "]">>, <<"[", "*", "]", "[", "5", "]">>}

\* C22: when the navigator evaluates an all segment over an array, a failure
\* of the remaining segments on one element (member access on a non-object,
\* missing member, fixed index on a non-array or out of range) is recorded as
\* (position, null) and never aborts the evaluation: the result has exactly
\* one (position, value) pair per element, in order.
C22_AllNeverAborts ==
    \A d \in Datasets, p \in AllPaths :
       \A r \in {navigate_path(DatasetArray(d), parse_path(p).segments)} :
          /\ r.exc = ""
          /\ r.val.t = "arr" /\ Len(r.val.kids) = Len(rows[d])
          /\ \A i \in 1..Len(r.val.kids) : r.val.kids[i].v.kids[1].v = JInt(i - 1)

\* C22 witness: postData holds an object with x and a row that is no object;
\* [*].x over it raises ValueError at the second element, while an index out
\* of range on an element that is an array is recorded as (0, null).
C22_Witness ==
    /\ rows["postData"] = <<PlainRow, JStr("a")>>
    /\ out.status = "success"
    /\ navigate_path(DatasetArray("postData"), parse_path(PathX).segments).exc = "ValueError"
    /\ navigate_path(JArr(<<DatasetArray("postData")>>), <<AllSeg, IndexSeg(5)>>)
          = NavOk(JArr(<<JArr(<<JInt(0), JNull>>)>>))

\* the process command run on the state over source with path [*].x, the
\* calls of the LLM having returned all_results
Run(source, all_results) ==
    IF StartFails(source, PathX, <<>>, <<>>, ResultsFileOf(source))
    THEN ProcessOutput("error", 0, outfiles, registry)
    ELSE LET r == ProcessResult(leads, registry, outfiles, datasets[source].exists,
                                rows[source], source, PathX, <<>>, <<>>,
                                ResultsFileOf(source), all_results)
         IN IF Unreadable(mapfile) THEN [r EXCEPT !.registry = registry] ELSE r

\* a record of all_results has the index of a record of the file
SharesIndex(records, all_results) ==
    \E i \in 1..Len(records), j \in 1..Len(all_results) :
       records[i]["index"] # None /\ records[i]["index"] = all_results[j]["index"]

\* C23, for a run that nothing interrupts: when its new results contain an
\* index already present in the target output file, the run fails with
\* status error and the output file and the registry are left exactly as
\* they were.
C23_Uninterrupted ==
    \A d \in Datasets : \A R \in LLMBatches(d) :
       ItemsOf(d) # <<>> /\ SharesIndex(outfiles[ResultsFileOf(d)].records, R) =>
          \A r \in {Run(d, R)} :
             r.status = "error" /\ r.files = outfiles /\ r.registry = registry

\* C23, for the end of a run that waited in its calls of the LLM while other
\* runs wrote the file: when the new results contain an index of the file as
\* the run reads it again, the run ends there with status error, and that
\* step leaves the output files, their texts and the registry as they were.
C23_Reread ==
    \A p \in Procs : \A a \in LLMAnswers(inflight[p].op.source) :
       (/\ process_reread(p, a)
        /\ SharesIndex(ExistingResults(filetext[inflight[p].op.results_file],
                                       outfiles[inflight[p].op.results_file].records),
                       inflight[p].all_results \o call_llm(a)))
       => /\ out'.status = "error"
          /\ inflight'[p].pc = "idle"
          /\ outfiles' = outfiles /\ filetext' = filetext /\ registry' = registry

\* C23: when the new results of a process run contain an index already
\* present in the target output file, the run fails with status error and
\* the output file and the registry are left exactly as they were: for a
\* run that nothing interrupts, and for the end of a run that waited in its
\* calls of the LLM while other runs wrote the file.
C23_DuplicateRejected == [](C23_Uninterrupted) /\ [][C23_Reread]_vars

\* C23 witness: the file of postData holds a record of index 0, row 1 is
\* still to process, the LLM answers with index 0 again and the run has
\* returned status error.
C23_Witness ==
    /\ out.status = "error"
    /\ Len(rows["postData"]) = 2
    /\ Len(outfiles["postData_passedRelevance.json"].records) = 1
    /\ outfiles["postData_passedRelevance.json"].records[1]["index"] = IntV(0)
    /\ Len(ItemsOf("postData")) = 1
    /\ \E R \in LLMBatches("postData") :
          /\ Len(R) = 1 /\ R[1]["index"] = IntV(0)
          /\ Run("postData", R).status = "error"

\* C24: after any sequence of process runs on an output file, whatever index
\* values the LLM returns (the same index twice in one batch or in two
\* batches of a run included), no two records of the file have the same index.
C24_UniqueIndices ==
    \A o \in OutputFiles :
       AtRest =>
          \A i, j \in 1..Len(outfiles[o].records) :
             i # j => outfiles[o].records[i]["index"] # outfiles[o].records[j]["index"]

\* C24 witness: runs have appended two records to the file of postData, and
\* here their indices are 0 and 1.
C24_Witness ==
    /\ out.status = "success"
    /\ Len(outfiles["postData_passedRelevance.json"].records) = 2
    /\ outfiles["postData_passedRelevance.json"].records[1]["index"] = IntV(0)
    /\ outfiles["postData_passedRelevance.json"].records[2]["index"] = IntV(1)

\* the records of all_results are records of the file, in order, at its end
PersistedLast(records, all_results) ==
    /\ Len(records) >= Len(all_results)
    /\ SubSeq(records, Len(records) - Len(all_results) + 1, Len(records)) = all_results

\* the call of a batch after the first fails, the calls before it having returned
LaterBatchFails(answers) ==
    \E k \in 2..Len(answers) :
       answers[k].failed /\ \A m \in 1..(k - 1) : ~answers[m].failed

\* C29: when process handles its items in several batches and the external
\* call for a later batch fails, the failure is surfaced to the caller
\* (status error) and the results of every batch completed before it are
\* persisted in the output file.
C29_FailureSurfaced ==
    \A d \in Datasets : \A A \in AnswerSeqs(d, BatchesOf(d, 1)) :
       LaterBatchFails(A) =>
          \A r \in {Run(d, AllResults(A))} :
             /\ r.status = "error"
             /\ PersistedLast(r.files[ResultsFileOf(d)].records, AllResults(A))

\* C29 witness: over two rows and an empty file, the first batch is answered
\* with a record and the call of the second fails; the run returns success
\* and has written the record of the first batch.
C29_Witness ==
    /\ Len(rows["postData"]) = 2
    /\ outfiles["postData_passedRelevance.json"].records = <<>>
    /\ BatchesOf("postData", 1) = 2
    /\ \E R \in CompleteBatches("postData") :
          /\ Len(R) = 1
          /\ Run("postData", AllResults(<<Answer(FALSE, R), Answer(TRUE, <<>>)>>)).status
                = "success"
          /\ Run("postData", AllResults(<<Answer(FALSE, R), Answer(TRUE, <<>>)>>))
                .files["postData_passedRelevance.json"].records = R

\* a '[' of the path has no ']' after it
Unclosed(path) ==
    \E i \in 1..Len(path) :
       path[i] = "[" /\ ~\E j \in (i + 1)..Len(path) : path[j] = "]"

\* C25: an extraction whose path has a '[' with no matching ']' (the single
\* path, or any path of a projection) is reported as status error, for every
\* dataset; it never returns status success.
C25_MalformedPathFails ==
    \A d \in Datasets, w \in IndexClauses \cup {<<>>} :
       /\ \A p \in Paths : Unclosed(p) => Extract(d, p, <<>>, w).status = "error"
       /\ \A F \in FieldMaps :
             (\E i \in 1..Len(F) : Unclosed(F[i].path))
                => Extract(d, <<>>, F, w).status = "error"

\* C25 witness: on a dataset with rows the single path [*].x[ is an error,
\* a projection holding the path [*].y[ returns a null under its key, and a
\* filter that selects no row makes [*].x[ succeed with no entry.
C25_Witness ==
    /\ Len(rows["postData"]) > 0 /\ leads = <<>>
    /\ Extract("postData", <<"[", "*", "]", ".", "x", "[">>, <<>>, <<>>).status = "error"
    /\ Extract("postData", <<>>,
               <<FieldItem("a", <<"x">>), FieldItem("b", <<"[", "*", "]", ".", "y", "[">>)>>,
               <<>>).status = "success"
    /\ Extract("postData", <<"[", "*", "]", ".", "x", "[">>, <<>>,
               Clause("postIndex", "0")) = ExtractSuccess(<<>>)

\* the position in source_indices of the first index no lead carries under
\* source_index_field, 0 when every index has a lead
FailurePoint(ls, source_index_field, source_indices) ==
    LET missing == {k \in 1..Len(source_indices) :
                       Matching(ls, source_index_field, source_indices[k]) = {}}
    IN IF missing = {} THEN 0
       ELSE CHOOSE k \in missing : \A m \in missing : k <= m

\* the link-indices command on the mapping of the state
LinkCommand(f, S, g) == LinkResult(leads, f, S, g, TRUE)

\* C26: when the link-indices command aborts partway through its
\* source_indices (a source index has no lead), the mapping it saves holds
\* every target index assigned before the failing index, and the result has
\* status error with the linked and skipped lists accumulated so far.
C26_PartialProgressPersisted ==
    \A f \in IndexFields : \A g \in IndexFields \ {f}, S \in SourceIndexLists :
       FailurePoint(leads, f, S) # 0 /\ ~MaxTarget(leads, g).raised =>
          \A r \in {LinkCommand(f, S, g)} :
             \A P \in {LinkResult(leads, f, SubSeq(S, 1, FailurePoint(leads, f, S) - 1),
                                  g, FALSE)} :
                /\ r.status = "error"
                /\ P.status = "success"
                /\ r.leads = P.leads /\ r.linked = P.linked /\ r.skipped = P.skipped
                /\ \A m \in 1..(FailurePoint(leads, f, S) - 1) :
                      r.leads[FirstLead(leads, f, S[m])][g] # None

\* C26 witness: the lead of post 0 is not linked and no lead carries post 1;
\* the command on [0, 1] saves the target index of post 0 and returns status
\* error with linked = [0].
C26_Witness ==
    /\ \E p \in 1..Len(leads) :
          leads[p]["postIndex"] = IntV(0) /\ leads[p]["profileIndex"] = None
    /\ FailurePoint(leads, "postIndex", <<0, 1>>) = 2
    /\ LinkCommand("postIndex", <<0, 1>>, "profileIndex").status = "error"
    /\ LinkCommand("postIndex", <<0, 1>>, "profileIndex").linked = <<0>>
    /\ LinkCommand("postIndex", <<0, 1>>, "profileIndex").leads # leads

\* the link-indices command run again on the mapping the command saved
Rerun(f, S, g) == LinkResult(LinkCommand(f, S, g).leads, f, S, g, TRUE)

\* C27 as claimed: after a link call aborted partway, rerunning it with the
\* same source_indices records the indices linked before the failure as
\* skipped without reassigning them and continues from the failure point, so
\* the source indices that follow the failure point and have leads end up
\* linked.
C27_AsClaimed ==
    \A f \in IndexFields : \A g \in IndexFields \ {f}, S \in SourceIndexLists :
       LinkCommand(f, S, g).status = "error" =>
          \A r \in {Rerun(f, S, g)} :
             /\ \A i \in 1..Len(LinkCommand(f, S, g).linked) :
                   \E j \in 1..Len(r.skipped) :
                      r.skipped[j] = LinkCommand(f, S, g).linked[i]
             /\ \A k \in (FailurePoint(leads, f, S) + 1)..Len(S) :
                   Matching(leads, f, S[k]) # {}
                      => r.leads[FirstLead(leads, f, S[k])][g] # None

\* C27: after a link-indices command aborted partway, the command rerun with
\* the same source_indices records every index before the failure point as
\* skipped, reassigns nothing (the mapping stays as the first run saved it,
\* linked is empty) and aborts again at the failure point.
C27_RerunSkipsLinked ==
    \A f \in IndexFields : \A g \in IndexFields \ {f}, S \in SourceIndexLists :
       LinkCommand(f, S, g).status = "error" =>
          \A r \in {Rerun(f, S, g)} :
             /\ r.status = "error"
             /\ r.leads = LinkCommand(f, S, g).leads
             /\ r.linked = <<>>
             /\ r.skipped = SubSeq(S, 1, FailurePoint(leads, f, S) - 1)

\* C27 witness: the command on [0, 1] links post 0 and aborts at post 1, which
\* has no lead; the rerun skips post 0 and aborts again.
C27_Witness ==
    /\ LinkCommand("postIndex", <<0, 1>>, "profileIndex").status = "error"
    /\ LinkCommand("postIndex", <<0, 1>>, "profileIndex").linked = <<0>>
    /\ Rerun("postIndex", <<0, 1>>, "profileIndex").skipped = <<0>>
    /\ Rerun("postIndex", <<0, 1>>, "profileIndex").status = "error"
    /\ \E p \in 1..Len(leads) : leads[p]["profileIndex"] # None

\* the rows of dataset d are kept at their positions by the step
RowsKept(d) ==
    /\ datasets'[d].exists
    /\ Len(rows'[d]) >= Len(rows[d])
    /\ SubSeq(rows'[d], 1, Len(rows[d])) = rows[d]

\* C28: a dataset file, once written, only ever grows by appending: across
\* any sequence of stage runs (scrapers, extract with save_name onto an
\* existing name) the rows at existing positions are never changed, removed
\* or renumbered.
C28_AppendOnly ==
    [][\A d \in Datasets : datasets[d].exists => RowsKept(d)]_vars

\* C28 witness: postData holds two rows and an extraction from it returns
\* one entry under limit 1, which the extract command saves as postData.
C28_Witness ==
    /\ Len(rows["postData"]) = 2
    /\ out.status = "success"
    /\ SavedRows(rows, ExtractResult(leads, registry, outfiles, TRUE, rows["postData"],
                     "postData", PathX, <<>>, <<>>, None, IntV(1)), "postData")["postData"]
          = <<JInt(1)>>

\* the statuses a result value carries
Statuses == {"success", "error"}

\* C30: every public operation (extract, init, update_field, bulk_register,
\* link) ends by returning a result that carries a status of success or
\* error and never raises to its caller, for every content of the mapping
\* reachable through these operations (a non-integer value stored under the
\* target index field by update_field before link runs included).
C30_StatusNeverRaise ==
    /\ \A f \in IndexFields : \A g \in IndexFields \ {f}, S \in SourceIndexLists :
          /\ LinkResult(leads, f, S, g, FALSE).status \in Statuses
          /\ LinkResult(leads, f, S, g, TRUE).status \in Statuses
    /\ \A d \in Datasets, w \in IndexClauses \cup WhereClauses \cup {<<>>} :
          Extract(d, PathX, <<>>, w).status \in Statuses
    /\ \A d \in Datasets : InitResult(leads, datasets[d].count, IndexFieldOf(d)).status \in Statuses
    /\ \A f \in IndexFields, I \in IndexSets, k \in Fields, v \in UpdateValues :
          UpdateResult(leads, f, I, k, v).status \in Statuses
    /\ \A f \in IndexFields, R \in ResultBatches, o \in OutputFiles \cup {NoFile} :
          BulkResult(leads, registry, f, R, o).status \in Statuses

\* C30 witness: update-mapping has stored the string "x" under profileIndex
\* of the lead of post 0, and the link of post 0 to a profile raises.
C30_Witness ==
    /\ \E p \in 1..Len(leads) :
          leads[p]["postIndex"] = IntV(0) /\ leads[p]["profileIndex"] = StrV("x")
    /\ out.status = "success"
    /\ LinkResult(leads, "postIndex", <<0>>, "profileIndex", FALSE).status = "raised"
    /\ Extract("postData", PathX, <<>>, <<>>).status = "success"

\* C31: extract with a where filter on a field registered to an output file
\* that does not exist on disk reports a not-found failure (status error); it
\* does not return status success with an empty result.
C31_MissingFileReported ==
    \A d \in Datasets, k \in EnrichFields, v \in {"true", "false"} :
       /\ datasets[d].exists
       /\ registry.fields[k] # NoFile
       /\ ~outfiles[registry.fields[k]].exists
       => Extract(d, PathX, <<>>, Clause(k, v)).status = "error"

\* C31 witness: postData has rows, passedRelevance is registered to a file
\* that was never written, and the filtered extraction returns success with
\* no entry.
C31_Witness ==
    /\ datasets["postData"].exists /\ Len(rows["postData"]) > 0
    /\ registry.fields["passedRelevance"] # NoFile
    /\ ~outfiles[registry.fields["passedRelevance"]].exists
    /\ Extract("postData", PathX, <<>>, Clause("passedRelevance", "true"))
          = ExtractSuccess(<<>>)

\* the value of lookup(field, index_value) on the state
Lookup(field, index_value) ==
    get_field_from_registry(registry, outfiles, field, index_value)

\* the value of the first record of the resolved output file whose index is
\* i, None when there is no registration, no file, no such record or no such
\* field in it
FirstOrNone(k, i) ==
    IF registry.fields[k] = NoFile THEN Lookup(k, i) = None
    ELSE IF ~outfiles[registry.fields[k]].exists THEN Lookup(k, i) = None
    ELSE \A recs \in {outfiles[registry.fields[k]].records} :
            \/ /\ \A p \in 1..Len(recs) : recs[p]["index"] # IntV(i)
               /\ Lookup(k, i) = None
            \/ \E p \in 1..Len(recs) :
                  /\ recs[p]["index"] = IntV(i)
                  /\ \A q \in 1..(p - 1) : recs[q]["index"] # IntV(i)
                  /\ Lookup(k, i) = recs[p][k]

\* C32 as claimed: lookup(field_name, index_value) never raises: it returns
\* the named field's value from the first record of the resolved output file
\* whose index equals index_value, and None when the field is not
\* registered, the file is missing, no record has that index, or the record
\* lacks the field.
C32_LookupFirstOrNone ==
    \A k \in FieldNames, i \in RowIndices : ~LookupRaises(k) /\ FirstOrNone(k, i)

\* when registry.json and the resolved output file are JSON, the lookup
\* returns that value
LookupWhenReadable ==
    \A k \in FieldNames, i \in RowIndices : ~LookupRaises(k) => FirstOrNone(k, i)

\* C32 scenario: a run is between the open and the write of its save of
\* registry.json, which holds no text, and a lookup has raised.
C32_Witness ==
    /\ out.status = "raised"
    /\ inflight[Driver].pc = "regopen"
    /\ filetext[RegistryFile] = Emptied
    /\ LookupRaises("passedRelevance")

\* the lookups on files at rest: the file of passedRelevance holds two
\* records of index 0, the first with the field and the second without;
\* isAgency is registered to a file that does not exist; a lookup has returned.
LookupAtRest ==
    /\ out.status = "returned"
    /\ AtRest
    /\ registry.fields["passedRelevance"] = "postData_passedRelevance.json"
    /\ Len(outfiles["postData_passedRelevance.json"].records) = 2
    /\ outfiles["postData_passedRelevance.json"].records[1]["index"] = IntV(0)
    /\ outfiles["postData_passedRelevance.json"].records[2]["index"] = IntV(0)
    /\ outfiles["postData_passedRelevance.json"].records[2]["passedRelevance"] = None
    /\ Lookup("passedRelevance", 0) = BoolV(FALSE)
    /\ Lookup("passedRelevance", 1) = None
    /\ registry.fields["isAgency"] = "profileData_isAgency.json"
    /\ ~outfiles["profileData_isAgency.json"].exists
    /\ Lookup("isAgency", 0) = None

\* source_indices without the indices no lead carries under source_index_field
WithLeads(ls, source_index_field, source_indices) ==
    LET Has(i) == Matching(ls, source_index_field, i) # {}
    IN SelectSeq(source_indices, Has)

\* link_indices_func on the mapping of the state
LinkFunc(f, S, g) == LinkResult(leads, f, S, g, FALSE)

\* C33: in link_indices_func a source index that no lead carries under
\* source_index_field is dropped silently: it appears in neither linked nor
\* skipped, consumes no target index, the remaining source indices are still
\* processed in order, and the call returns status success.
C33_MissingDroppedSilently ==
    \A f \in IndexFields : \A g \in IndexFields \ {f}, S \in SourceIndexLists :
       \A r \in {LinkFunc(f, S, g)} :
          /\ r.status = "success"
          /\ \A k \in 1..Len(S) :
                Matching(leads, f, S[k]) = {} =>
                   /\ \A i \in 1..Len(r.linked) : r.linked[i] # S[k]
                   /\ \A i \in 1..Len(r.skipped) : r.skipped[i] # S[k]
          /\ r = LinkFunc(f, WithLeads(leads, f, S), g)

\* C33 witness: no lead carries post 1 and the lead of post 0 is not linked;
\* the call on [1, 0] drops 1 and links post 0 to the first free target index.
C33_Witness ==
    /\ Matching(leads, "postIndex", 1) = {}
    /\ Matching(leads, "postIndex", 0) # {}
    /\ LinkFunc("postIndex", <<1, 0>>, "profileIndex").linked = <<0>>
    /\ LinkFunc("postIndex", <<1, 0>>, "profileIndex").skipped = <<>>
    /\ LinkFunc("postIndex", <<1, 0>>, "profileIndex").status = "success"
    /\ LinkFunc("postIndex", <<1, 0>>, "profileIndex").target_start
          = IntV(MaxTarget(leads, "profileIndex").max_target + 1)

\* the step is the write that ends the save of process p
WriteStep(p) == inflight[p].pc = "opened" /\ inflight'[p].pc = "idle"

\* the mapping the call of process p writes: its changes on the copy it loaded
VersionOf(p) == OpResult(inflight[p].mapping, inflight[p].op).leads

\* nothing was written to the file since process p loaded it
Undisturbed(p) == inflight[p].mapping = leads /\ mapfile.kind = "empty"

\* C34: mutating operations on the mapping are whole-file load,
\* mutate, save with no locking: when a call saves, the file ends as the
\* saver's version, computed from the copy it loaded, so whatever another
\* call saved after that load is lost (last writer wins); when the calls are
\* serialized no change is lost.
C34_LastWriterWins ==
    [][\A p \in Procs :
          WriteStep(p) =>
             /\ mapfile' = Readable
             /\ leads' = VersionOf(p)
             /\ Undisturbed(p) => leads' = OpResult(leads, inflight[p].op).leads]_vars

\* C34 witness: two saves overlapped.  Process 1 initialised the mapping with
\* the lead of post 0 and process 2 updated no lead of the empty mapping it
\* had loaded; both opened the file, process 1 wrote its version and process
\* 2 wrote the shorter text of its own over the start of it: the file holds
\* text of the length of the first version that is no JSON.
C34_Witness ==
    /\ \A p \in Procs : inflight[p].pc = "idle"
    /\ Len(inflight[1].saved) = 1
    /\ inflight[1].saved[1]["postIndex"] = IntV(0)
    /\ inflight[2].saved = <<>>
    /\ mapfile = [kind |-> "garbled", len |-> TextLen(inflight[1].saved)]
    /\ LoadMapping(mapfile, leads).exc # ""

\* the output file of source holds a record for every item of the dataset
AllProcessed(source) ==
    \A e \in {Extract(source, PathX, <<>>, <<>>)} :
       /\ e.status = "success"
       /\ e.data # <<>>
       /\ \A i \in 1..Len(e.data) :
             \E m \in 1..Len(outfiles[ResultsFileOf(source)].records) :
                outfiles[ResultsFileOf(source)].records[m]["index"] = e.data[i].index

\* C35, for the run the state is ready for: it hands to the LLM only items
\* whose index is not yet in the output file; when the file holds a record
\* for every item it has no batch, reports processed = 0 and leaves the
\* output file and the registry unchanged.
C35_ItemsLeft ==
    \A d \in Datasets :
       \A items \in {ItemsOf(d)} :
          /\ \A i \in 1..Len(items) :
                \A m \in 1..Len(outfiles[ResultsFileOf(d)].records) :
                   outfiles[ResultsFileOf(d)].records[m]["index"] # items[i].index
          /\ AtRest /\ AllProcessed(d) =>
                /\ \A b \in BatchSizes : NumBatches(Len(items), b) = 0
                /\ \A R \in LLMBatches(d) :
                      Run(d, R) = ProcessOutput("success", 0, outfiles, registry)

\* C35, for the step in which a run reads the results file: the calls of
\* call_llm it goes into are the batches of the items the file has no record
\* for, and when the file holds a record for every item the run ends there
\* with status success and nothing written.
C35_Rerun ==
    \A p \in Procs :
       inflight[p].pc = "registry" /\ inflight'[p].pc # "registry" =>
          /\ inflight'[p].pc = "llm" =>
                /\ inflight'[p].calls > 0
                /\ inflight'[p].calls = BatchesOf(inflight[p].op.source,
                                                  inflight[p].op.batch_size)
          /\ (/\ AllProcessed(inflight[p].op.source)
              /\ ~Unreadable(filetext[inflight[p].op.results_file]))
             => /\ inflight'[p].pc = "idle"
                /\ out'.status = "success"
                /\ outfiles' = outfiles /\ filetext' = filetext
                /\ registry' = registry /\ leads' = leads

\* C35: a process run sends to the LLM only items whose index is not yet in
\* the output file; rerun after a run that produced a result for every item,
\* it calls the LLM for no item, reports processed = 0 and leaves the output
\* file and the registry unchanged.
C35_RerunIdempotent == [](C35_ItemsLeft) /\ [][C35_Rerun]_vars

\* C35 witness: a run over the two rows of postData has written a record
\* for each of them and registered the file; a rerun has no item left.
C35_Witness ==
    /\ out.status = "success"
    /\ Len(rows["postData"]) = 2
    /\ AllProcessed("postData")
    /\ registry.files["postData_passedRelevance.json"].registered
    /\ Len(outfiles["postData_passedRelevance.json"].records) = 2
    /\ BatchesOf("postData", 1) = 0

\* the values the navigator is given: the dataset as an array, each of its
\* rows, the empty array, a number and null
NavValues(d) ==
    {DatasetArray(d), JArr(<<>>), JInt(1), JNull} \cup {rows[d][i] : i \in 1..Len(rows[d])}

\* bracket paths of a fixed index, with the index they denote
IndexPaths ==
    {[path |-> <<"[", "0", "]">>, n |-> 0], [path |-> <<"[", "1", "]">>, n |-> 1],
     [path |-> <<"[", "2", "]">>, n |-> 2], [path |-> <<"[", "-", "1", "]">>, n |-> -1],
     [path |-> <<"[", "-", "3", "]">>, n |-> -3]}

\* the navigator returned
Succeeds(v, segments) == navigate_path(v, segments).exc = ""

\* C36 as claimed: a key(name) segment succeeds only on an object and fails
\* on any other value; an index(n) segment succeeds exactly when the current
\* value is an array of length > n and fails otherwise (also for a negative n
\* parsed from a bracket such as [-1]); an empty segment list returns the
\* input unchanged.
C36_AsClaimed ==
    \A d \in Datasets : \A v \in NavValues(d) :
       /\ navigate_path(v, <<>>) = NavOk(v)
       /\ Succeeds(v, <<KeySeg("x")>>) <=> v.t = "obj"
       /\ \A ip \in IndexPaths :
             /\ parse_path(ip.path) = [exc |-> "", segments |-> <<IndexSeg(ip.n)>>]
             /\ Succeeds(v, parse_path(ip.path).segments)
                   <=> (v.t = "arr" /\ Len(v.kids) > ip.n)

\* C36: a key(name) segment succeeds only on an object (giving the member's
\* value, None when the member is missing) and fails on any other value; an
\* index(n) segment succeeds exactly when the current value is an array and
\* -length <= n < length, a negative n counting from the end, and fails
\* otherwise; an empty segment list returns the input unchanged.
C36_SegmentContracts ==
    \A d \in Datasets : \A v \in NavValues(d) :
       /\ navigate_path(v, <<>>) = NavOk(v)
       /\ Succeeds(v, <<KeySeg("x")>>) <=> v.t = "obj"
       /\ \A ip \in IndexPaths :
             /\ parse_path(ip.path) = [exc |-> "", segments |-> <<IndexSeg(ip.n)>>]
             /\ Succeeds(v, parse_path(ip.path).segments)
                   <=> (v.t = "arr" /\ 0 - Len(v.kids) <= ip.n /\ ip.n < Len(v.kids))
             /\ (v.t = "arr" /\ 0 <= ip.n /\ ip.n < Len(v.kids))
                   => navigate_path(v, <<IndexSeg(ip.n)>>) = NavOk(v.kids[ip.n + 1].v)
             /\ (v.t = "arr" /\ ip.n < 0 /\ 0 - ip.n <= Len(v.kids))
                   => navigate_path(v, <<IndexSeg(ip.n)>>) = NavOk(v.kids[Len(v.kids) + ip.n + 1].v)

\* C36 witness: on a dataset of two rows, one of them no object, [-1] gives
\* the last row, [-3] and [2] are out of range, and a key on the row that is
\* no object fails.
C36_Witness ==
    /\ rows["postData"] = <<PlainRow, JStr("a")>>
    /\ out.status = "success"
    /\ navigate_path(DatasetArray("postData"), <<IndexSeg(-1)>>) = NavOk(JStr("a"))
    /\ navigate_path(DatasetArray("postData"), <<IndexSeg(-3)>>).exc = "IndexError"
    /\ navigate_path(DatasetArray("postData"), <<IndexSeg(2)>>).exc = "IndexError"
    /\ navigate_path(JStr("a"), <<KeySeg("x")>>).exc = "ValueError"
    /\ navigate_path(PlainRow, <<KeySeg("x")>>) = NavOk(JInt(1))

\* the URL of row i of postData, as the actor is asked for it
UrlOfRow(i) == CleanUrl(rows["postData"][i + 1].kids[1].v.s)

\* the target index the mapping ls gives the lead of post i
TargetIndexOf(ls, i) == ls[FirstLead(ls, "postIndex", i)]["profileIndex"].n

\* one run of scrape_profiles from postData into profileData in the current state
Scrape(limit, actor) ==
    ScrapeResult(leads, registry, outfiles, datasets["postData"].exists,
                 rows["postData"], rows["profileData"], "postData", PathX, <<>>,
                 limit, "profileData", actor)

\* C37: after scrape_profiles appended the actor's results to the target
\* dataset and linked the scraped source indices, every target index t
\* assigned in that run is a position of the target dataset (t < its length)
\* and row t is the result scraped for that lead's source row, whatever
\* number of items the actor returns and whatever the target dataset held.
C37_TargetsAligned ==
    \A l \in {x \in ScrapeLimits : AtRest} :
       \A a \in ActorAnswers(QueriesOf("postData", PathX, l, "profileData")) :
          \A r \in {Scrape(l, a)} :
             r.status = "success" =>
                \A k \in 1..Len(r.linked) :
                   /\ TargetIndexOf(r.leads, r.linked[k]) < Len(r.rows)
                   /\ r.rows[TargetIndexOf(r.leads, r.linked[k]) + 1]
                         = Profile(UrlOfRow(r.linked[k]))

\* C37 witness: a run in which the actor answered both queries left the two
\* posts linked to the rows of their own profiles.
C37_Witness ==
    /\ AtRest
    /\ rows["postData"] = <<UrlRow("a?q"), UrlRow("b")>>
    /\ rows["profileData"] = <<Profile("a"), Profile("b")>>
    /\ Len(leads) = 2
    /\ leads[1]["postIndex"] = IntV(0) /\ leads[1]["profileIndex"] = IntV(0)
    /\ leads[2]["postIndex"] = IntV(1) /\ leads[2]["profileIndex"] = IntV(1)
    /\ out.status = "success"

\* C38: in every state reachable by serialized init, link, update-field and
\* bulk-register calls, no two lead records carry the same value under the
\* same index field: each stage row is joined to at most one lead.
C38_IndexValuesUnique ==
    \A f \in IndexFields : \A p, q \in 1..Len(leads) :
        (p # q /\ leads[p][f] # None) => ~PyEq(leads[p][f], leads[q][f])

\* C38 witness: after init, link and an update call, two leads that each
\* carry both index fields, with different values.
C38_Witness ==
    /\ Len(leads) = 2
    /\ nupdates > 0
    /\ leads[1]["passedRelevance"] = BoolV(TRUE)
    /\ \A f \in IndexFields :
          /\ IsNum(leads[1][f]) /\ IsNum(leads[2][f])
          /\ leads[1][f].n # leads[2][f].n

\* C39: in every registry state reachable by register and bulk-register
\* calls, each field name in the reverse field-to-file map points to a file
\* that has an entry in the files table, and that entry's field list contains
\* the field: no stale reverse entry survives a re-registration of the file
\* with a smaller field list.
C39_ReverseMapConsistent ==
    \A k \in FieldNames :
        registry.fields[k] # NoFile =>
            /\ registry.files[registry.fields[k]].registered
            /\ k \in registry.files[registry.fields[k]].fields

\* C39 witness: both files registered, each with its own field, and the
\* reverse map pointing every field at the file that lists it.
C39_Witness ==
    /\ registry.files["postData_passedRelevance.json"].registered
    /\ registry.files["postData_passedRelevance.json"].fields = {"index", "passedRelevance"}
    /\ registry.files["profileData_isAgency.json"].registered
    /\ registry.files["profileData_isAgency.json"].fields = {"isAgency"}
    /\ registry.fields["passedRelevance"] = "postData_passedRelevance.json"
    /\ registry.fields["isAgency"] = "profileData_isAgency.json"
    /\ registry.fields["index"] = NoFile
====
